---- MODULE Spec2Model ----
(***************************************************************************)
(* Route discovery and link-enum emission of route-info-builder.           *)
(*                                                                         *)
(* Strings are sequences of one-character strings, so that trimming,       *)
(* replacing, prefix tests and case conversion are computed character by   *)
(* character as the Rust code computes them.  Option<T> is a sequence of   *)
(* length 0 (None) or 1 (Some(v)).                                         *)
(***************************************************************************)
EXTENDS Naturals, Sequences, FiniteSets

VARIABLES
    config,          \* the naming configuration of the run (config/mod.rs NamingConfig)
    pc,              \* position of the run inside scan_controllers_folder / generate
    entries_seen,    \* number of directory entries the scan loop has consumed
    last_entry,      \* the kind of the entry consumed last ("" before the first)
    routes,          \* `routes` of scan_controllers_folder: routes of the files read so far
    file_routes,     \* `routes` of extract_routes_from_axum_function for the current file
    prefix,          \* `current_prefix` of extract_routes_from_axum_function
    stack,           \* pending method calls of the recursion of extract_routes_from_expr
    text,            \* history: the bases and method calls of the current routes function,
                     \* in source order
    decl,            \* history: for each route of file_routes, the position in text of its
                     \* add call, and the prefix and the literal it was built from
    scanned,         \* the routes of all files, as they were before deduplication
    stmts_seen,      \* number of statements the run has processed
    calls_seen,      \* number of method calls the run has entered
    diag,            \* the diagnostics written to stderr, in order
    result,          \* what scan_controllers_folder returned: None, Ok(routes) or Err(reason)
    gen_i,           \* index of the next route in the loop of RustLinksGenerator::generate
    variants,        \* `variants` of RustLinksGenerator::generate
    match_arms,      \* `match_arms` of RustLinksGenerator::generate
    method_arms,     \* `method_arms` of RustLinksGenerator::generate
    unique_variants, \* `unique_variants` of RustLinksGenerator::generate (name -> route)
    call,            \* the last call of a pure function: its name, arguments and value
    func,            \* the function extract_handler_info is looking at (an ItemFn)
    body_param,      \* `body_param` of extract_handler_info
    requires_auth,   \* `requires_auth` of extract_handler_info
    visitor,         \* the ReturnTypeVisitor of extract_return_type_from_body
    stmt_i,          \* number of statements of the body visit_item_fn has visited
    handler_info,    \* `handler_info` of extract_handler_info: name -> HandlerInfo
    ts_i,            \* index of the next route in the loops of the TypeScript generators
    type_imports,    \* `type_imports` of the TypeImportManager
    interfaces,      \* `interfaces` of TypeScriptClientGenerator::generate
    client_methods,  \* `client_methods` of TypeScriptClientGenerator::generate
    hooks,           \* `hooks` of TypeScriptHooksGenerator::generate
    client_imports,  \* `client_imports` of TypeScriptHooksGenerator::generate
    ts_config,       \* typescript_client_output and generate_typescript_client of Config
    written,         \* the files that fs::write has written, in order
    returned,        \* what generate_links returned: nothing yet, Ok(code) or Err(reason)
    previous         \* history: the runs of generate_links that have returned before

vars == <<config, pc, entries_seen, last_entry, routes, file_routes, prefix, stack, text, decl,
          scanned, stmts_seen, calls_seen, diag, result, gen_i, variants, match_arms, method_arms,
          unique_variants, call, func, body_param, requires_auth, visitor, stmt_i,
          handler_info, ts_i, type_imports, interfaces, client_methods, hooks,
          client_imports, ts_config, written, returned, previous>>

-----------------------------------------------------------------------------
(* Bounds of the model *)

\* longest string drawn as an input of a pure function
MaxLen == 3
\* directory entries of the controllers folder
MaxEntries == 2
\* statements read in one run, over all routes functions
MaxStmts == 2
\* method calls read in one run, over all routes functions
MaxCalls == 3

-----------------------------------------------------------------------------
(* Option<T> *)

None == <<>>
Some(v) == <<v>>
IsSome(o) == o # <<>>
Unwrap(o) == o[1]
UnwrapOr(o, d) == IF o = <<>> THEN d ELSE o[1]

-----------------------------------------------------------------------------
(* Characters and strings *)

LowerLetters == <<"a","b","c","d","e","f","g","h","i","j","k","l","m",
                  "n","o","p","q","r","s","t","u","v","w","x","y","z">>
UpperLetters == <<"A","B","C","D","E","F","G","H","I","J","K","L","M",
                  "N","O","P","Q","R","S","T","U","V","W","X","Y","Z">>
Digits == {"0","1","2","3","4","5","6","7","8","9"}

Range(s) == { s[i] : i \in 1..Len(s) }
IndexOf(c, s) == CHOOSE i \in 1..Len(s) : s[i] = c

IsLower(c) == c \in Range(LowerLetters)
IsUpper(c) == c \in Range(UpperLetters)
\* char::is_alphabetic and char::is_alphanumeric, on the characters of the model
IsAlphabetic(c) == IsLower(c) \/ IsUpper(c)
IsAlphanumeric(c) == IsAlphabetic(c) \/ c \in Digits

CharToLower(c) == IF IsUpper(c) THEN LowerLetters[IndexOf(c, UpperLetters)] ELSE c
CharToUpper(c) == IF IsLower(c) THEN UpperLetters[IndexOf(c, LowerLetters)] ELSE c
\* str::to_lowercase, str::to_uppercase
ToLowercase(s) == [i \in 1..Len(s) |-> CharToLower(s[i])]
ToUppercase(s) == [i \in 1..Len(s) |-> CharToUpper(s[i])]

\* all strings over alphabet A of length at most n
RECURSIVE StrOfLen(_, _)
StrOfLen(A, n) ==
    IF n = 0 THEN { <<>> }
    ELSE { Append(s, c) : s \in StrOfLen(A, n - 1), c \in A }
StrUpTo(A, n) == UNION { StrOfLen(A, k) : k \in 0..n }

\* str::starts_with(&str)
StartsWith(s, p) == Len(p) <= Len(s) /\ SubSeq(s, 1, Len(p)) = p
\* &s[n..]
DropFirst(s, n) == SubSeq(s, n + 1, Len(s))

\* str::trim_start_matches(char): strips every leading c
RECURSIVE TrimStartMatches(_, _)
TrimStartMatches(s, c) ==
    IF s # <<>> /\ s[1] = c THEN TrimStartMatches(Tail(s), c) ELSE s

\* str::trim_end_matches(char): strips every trailing c
RECURSIVE TrimEndMatches(_, _)
TrimEndMatches(s, c) ==
    IF s # <<>> /\ s[Len(s)] = c
    THEN TrimEndMatches(SubSeq(s, 1, Len(s) - 1), c)
    ELSE s

\* str::trim_matches(char)
TrimMatches(s, c) == TrimEndMatches(TrimStartMatches(s, c), c)

\* str::contains(&str)
Contains(s, pat) ==
    \E i \in 1..(Len(s) + 1) : StartsWith(DropFirst(s, i - 1), pat)

\* str::replace(&str, &str): non-overlapping matches, left to right, one pass
RECURSIVE ReplaceStr(_, _, _)
ReplaceStr(s, from, to) ==
    IF s = <<>> THEN <<>>
    ELSE IF StartsWith(s, from)
         THEN to \o ReplaceStr(DropFirst(s, Len(from)), from, to)
         ELSE <<s[1]>> \o ReplaceStr(Tail(s), from, to)

\* str::replace with a set of characters as the pattern
RECURSIVE ReplaceChars(_, _, _)
ReplaceChars(s, cs, to) ==
    IF s = <<>> THEN <<>>
    ELSE (IF s[1] \in cs THEN to ELSE <<s[1]>>) \o ReplaceChars(Tail(s), cs, to)

-----------------------------------------------------------------------------
(* utils/path.rs *)

\* the build_full_path of a build that does not trim the slashes
build_full_path_untrimmed(pfx, path) ==
    IF pfx = <<>> THEN path ELSE pfx \o <<"/">> \o path

build_full_path(pfx, path) ==
    IF pfx = <<>>
    THEN path
    ELSE LET clean_prefix == TrimEndMatches(pfx, "/")
             clean_path == TrimStartMatches(path, "/")
         IN  clean_prefix \o <<"/">> \o clean_path

-----------------------------------------------------------------------------
(* utils/case.rs *)

\* a sanitize_identifier that forgets to guard the first character
sanitize_identifier_no_guard(name) ==
    [i \in 1..Len(name) |-> IF IsAlphanumeric(name[i]) \/ name[i] = "_"
                            THEN name[i] ELSE "_"]

sanitize_identifier(name) ==
    LET first == IF name # <<>> /\ ~IsAlphabetic(name[1]) /\ name[1] # "_"
                 THEN <<"_">> ELSE <<>>
        rest == [i \in 1..Len(name) |-> IF IsAlphanumeric(name[i]) \/ name[i] = "_"
                                        THEN name[i] ELSE "_"]
    IN  first \o rest

-----------------------------------------------------------------------------
(* config/naming.rs *)

\* the separator loop of clean_route_path_for_name: one replace per character
RECURSIVE ReplaceEachSeparator(_, _)
ReplaceEachSeparator(s, seps) ==
    IF seps = <<>> THEN s
    ELSE ReplaceEachSeparator(ReplaceChars(s, {seps[1]}, <<"_">>), Tail(seps))

\* while result.contains("__") { result = result.replace("__", "_") }
RECURSIVE CollapseUnderscores(_)
CollapseUnderscores(s) ==
    IF Contains(s, <<"_","_">>)
    THEN CollapseUnderscores(ReplaceStr(s, <<"_","_">>, <<"_">>))
    ELSE s

clean_route_path_for_name(path, naming) ==
    LET r1 == ReplaceStr(TrimMatches(path, "/"), <<"/","/">>, <<"/">>)
        r2 == ReplaceChars(ReplaceChars(r1, {"{"}, <<>>), {"}"}, <<>>)
        r3 == IF IsSome(naming.word_separators)
              THEN ReplaceEachSeparator(r2, Unwrap(naming.word_separators))
              ELSE ReplaceChars(r2, {"-", "/", ".", ":"}, <<"_">>)
    IN  TrimMatches(CollapseUnderscores(r3), "_")

\* the copy of the path used for naming, after path_prefix_to_remove
name_path_of(path, naming) ==
    IF IsSome(naming.path_prefix_to_remove)
    THEN LET normalized_prefix == TrimMatches(Unwrap(naming.path_prefix_to_remove), "/")
             normalized_path == TrimMatches(path, "/")
         IN  IF StartsWith(normalized_path, normalized_prefix)
             THEN TrimStartMatches(DropFirst(normalized_path, Len(normalized_prefix)), "/")
             ELSE path
    ELSE path

\* a base_name_of without the "root" fallback
base_name_no_root(clean_path) == clean_path

base_name_of(clean_path) ==
    IF clean_path = <<>> \/ clean_path = <<"/">>
    THEN <<"r","o","o","t">>
    ELSE clean_path

generate_route_name(path, method, naming) ==
    LET include_method == UnwrapOr(naming.include_method_in_names, TRUE)
        clean_path == clean_route_path_for_name(name_path_of(path, naming), naming)
        base_name == base_name_of(clean_path)
        name == IF include_method
                THEN ToLowercase(method) \o <<"_">> \o base_name
                ELSE base_name
    IN  sanitize_identifier(name)

-----------------------------------------------------------------------------
(* The syntax the interpreter reads *)

\* A method call of a builder chain, as extract_routes_from_expr classifies it:
\*   prefix          .prefix("lit")
\*   prefix_nonlit   .prefix(expr) whose first argument is missing or no string literal
\*   add             .add("lit", verb(handler))
\*   add_one_arg     .add(x): fewer than two arguments
\*   add_bad_path    .add(expr, verb(handler)): the path is no string literal
\*   add_bad_method  .add("lit", expr): the method expression is no call of a path
\*                   with a path as first argument
\*   other           any other method name
MkCall(kind, lit, verb, handler) ==
    [kind |-> kind, lit |-> lit, verb |-> verb, handler |-> handler]

NoStr == <<>>
PrefixLits == { <<"/","p">>, <<"q","/">> }
AddCalls ==
    { MkCall("add", <<"/","{","i","}">>, <<"g","e","t">>, "h1"),
      MkCall("add", <<"/","{","i","}">>, <<"g","e","t">>, "h2"),
      MkCall("add", <<"i">>, <<"p","o","s","t">>, "h1") }
BadAddKinds == { "add_bad_path", "add_bad_method" }
Calls ==
    { MkCall("prefix", p, NoStr, "") : p \in PrefixLits }
    \cup AddCalls
    \cup { MkCall(k, NoStr, NoStr, "") :
             k \in {"prefix_nonlit", "add_one_arg", "other"} \cup BadAddKinds }

\* The innermost receiver of a chain: a call whose path ends in `new`, or anything else
BaseKinds == { "new", "base_other" }
MkBase(kind) == MkCall(kind, NoStr, NoStr, "")

-----------------------------------------------------------------------------
(* parser/mod.rs: records *)

DefaultReturnType ==
    [found_type |-> None, is_importable |-> FALSE, error_types |-> <<>>]
DefaultHandlerInfo ==
    [body_param |-> None, requires_auth |-> FALSE, return_type |-> DefaultReturnType,
     query_params |-> None]

RouteInfo(name, path, method, handler, info) ==
    [name |-> name, path |-> path, method |-> method, handler |-> handler,
     handler_info |-> info]

\* Result<Vec<RouteInfo>, Box<dyn Error>>, and "none" while nothing was returned
NoResult == [kind |-> "none", routes |-> <<>>, reason |-> ""]
Ok(rs) == [kind |-> "ok", routes |-> rs, reason |-> ""]
Err(reason) == [kind |-> "err", routes |-> <<>>, reason |-> reason]

-----------------------------------------------------------------------------
(* The syntax tree of a handler function, as syn hands it to parser/handlers.rs *)

\* identifiers and type names are strings: Ident::to_string()
Id_json == <<"j","s","o","n">>
Id_format == <<"f","o","r","m","a","t">>
Id_from == <<"f","r","o","m">>
Id_new == <<"n","e","w">>
Id_Vec == <<"V","e","c">>
Id_Ok == <<"O","k">>
Id_auth == <<"a","u","t","h">>
Id_token == <<"t","o","k","e","n">>
Id_JWT == <<"J","W","T">>
Id_Json == <<"J","s","o","n">>
Id_JsonValidate == <<"J","s","o","n","V","a","l","i","d","a","t","e">>
Id_JsonValidateWithMessage == <<"J","s","o","n","V","a","l","i","d","a","t","e","W","i","t","h","M","e","s","s","a","g","e">>
Id_Result == <<"R","e","s","u","l","t">>
Id_Response == <<"R","e","s","p","o","n","s","e">>
Id_Widget == <<"W","i","d","g","e","t">>
Id_Gadget == <<"G","a","d","g","e","t">>
Id_String == <<"S","t","r","i","n","g">>
Id_i32 == <<"i","3","2">>
Id_Error == <<"E","r","r","o","r">>

\* syn::Type: a Type::Path with the ident of its last segment and, when that
\* segment has angle-bracketed arguments whose first is a Type::Path, the ident of
\* the last segment of that argument; or Type::ImplTrait; or any other type
TypePath(name, targ) == [kind |-> "path", name |-> name, targ |-> targ]
ImplTrait == [kind |-> "impl_trait", name |-> <<>>, targ |-> None]
OtherType == [kind |-> "other", name |-> <<>>, targ |-> None]

\* syn::FnArg: Typed(pat, ty) with pat the ident of a Pat::Ident (None for another
\* pattern), or the receiver
Typed(pat, ty) == [typed |-> TRUE, pat |-> pat, ty |-> ty]
Receiver == [typed |-> FALSE, pat |-> None, ty |-> OtherType]

\* syn::Expr.  One record shape for every node:
\*   call         name: the segments of the function path (empty when the function
\*                is no path), targ: the first generic argument of the FIRST segment
\*                as for TypePath, args: the arguments
\*   method_call  recv: the receiver, name: the method, args: the arguments
\*   return       args: the returned expression, if any
\*   block        stmts: the statements of the block
\*   if           recv: the condition, stmts: the then branch, args: the else
\*                expression, if any
\*   match        recv: the scrutinee, args: the bodies of the arms
\*   path         a variable
\*   other        any other expression (await, ?, macro, literal, closure, ..)
Expr(kind, name, targ, recv, args, stmts) ==
    [kind |-> kind, name |-> name, targ |-> targ, recv |-> recv, args |-> args,
     stmts |-> stmts]
ECall(name, targ, args) == Expr("call", name, targ, <<>>, args, <<>>)
EMethodCall(recv, method, args) == Expr("method_call", <<method>>, None, <<recv>>, args, <<>>)
EReturn(e) == Expr("return", <<>>, None, <<>>, e, <<>>)
EBlock(stmts) == Expr("block", <<>>, None, <<>>, <<>>, stmts)
EIf(cond, then_branch, else_branch) ==
    Expr("if", <<>>, None, <<cond>>, else_branch, then_branch)
EMatch(e, arms) == Expr("match", <<>>, None, <<e>>, arms, <<>>)
EPath == Expr("path", <<>>, None, <<>>, <<>>, <<>>)
EOther == Expr("other", <<>>, None, <<>>, <<>>, <<>>)

\* syn::Stmt: Expr(e, _), Local with its initialiser if any, Item, Macro
SExpr(e) == [kind |-> "expr", expr |-> <<e>>]
SLocal(init) == [kind |-> "local", expr |-> init]
SItem == [kind |-> "item", expr |-> <<>>]
SMacro == [kind |-> "macro", expr |-> <<>>]

\* syn::ItemFn: sig.ident, sig.inputs, sig.output (None for no `->`), block.stmts
ItemFn(name, inputs, output, stmts) ==
    [name |-> name, inputs |-> inputs, output |-> output, stmts |-> stmts]

Id_into == <<"i","n","t","o">>
Id_foo == <<"f","o","o">>

\* format::json(arg), T::from(x), Vec::<T>::new(), T(x), x.into()
JsonOf(arg) == ECall(<<Id_format, Id_json>>, None, <<arg>>)
ConvFrom(t) == ECall(<<t, Id_from>>, None, <<EPath>>)
VecNew(t) == ECall(<<Id_Vec, Id_new>>, Some(t), <<>>)
Ctor(t) == ECall(<<t>>, None, <<EPath>>)
Into == EMethodCall(EPath, Id_into, <<>>)

-----------------------------------------------------------------------------
(* parser/handlers.rs: ReturnTypeVisitor *)

Last(s) == s[Len(s)]

BuiltinRustNames ==
    { <<"i","8">>,
      <<"i","1","6">>,
      <<"i","3","2">>,
      <<"i","6","4">>,
      <<"i","1","2","8">>,
      <<"i","s","i","z","e">>,
      <<"u","8">>,
      <<"u","1","6">>,
      <<"u","3","2">>,
      <<"u","6","4">>,
      <<"u","1","2","8">>,
      <<"u","s","i","z","e">>,
      <<"f","3","2">>,
      <<"f","6","4">>,
      <<"b","o","o","l">>,
      <<"c","h","a","r">>,
      <<"s","t","r">>,
      <<"S","t","r","i","n","g">> }
is_builtin_type_rust(type_name) == type_name \in BuiltinRustNames

\* format!("Array<{}>", inner_type)
ArrayOf(inner_type) == <<"A","r","r","a","y","<">> \o inner_type \o <<">">>

\* extract_vec_type(&mut self, path): the Option it returns and the visitor it leaves
extract_vec_type(v, e) ==
    IF Len(e.name) >= 2 /\ e.name[1] = Id_Vec /\ IsSome(e.targ)
    THEN LET inner_type == Unwrap(e.targ)
         IN  [type |-> Some(ArrayOf(inner_type)),
              visitor |-> IF ~is_builtin_type_rust(inner_type)
                          THEN [v EXCEPT !.is_importable = TRUE] ELSE v]
    ELSE [type |-> None, visitor |-> v]

visit_conversion_expr(v, e) ==
    IF e.kind = "call" /\ e.name # <<>>
    THEN LET vec == extract_vec_type(v, e)
         IN  IF IsSome(vec.type)
             THEN [vec.visitor EXCEPT !.found_type = vec.type, !.is_importable = TRUE]
             ELSE IF Len(e.name) >= 2
                  THEN [v EXCEPT !.found_type = Some(e.name[Len(e.name) - 1]),
                                 !.is_importable = TRUE]
                  ELSE [v EXCEPT !.found_type = Some(Last(e.name)),
                                 !.is_importable = TRUE]
    ELSE v

\* a visitor without the early return
already_found_never(v) == FALSE

\* `if self.found_type.is_some() { return; }` at the top of visit_expr and visit_stmt
already_found(v) == IsSome(v.found_type)

\* the function of a call is a path whose last segment is `json`, and there is a
\* first argument
IsJsonCall(e) == e.name # <<>> /\ Last(e.name) = Id_json /\ e.args # <<>>

RECURSIVE visit_expr(_, _)
RECURSIVE visit_exprs(_, _)
RECURSIVE visit_stmt(_, _)
RECURSIVE visit_stmts(_, _)
RECURSIVE visit_block(_, _)

visit_expr(v, e) ==
    IF already_found(v) THEN v
    ELSE IF e.kind = "call"
         THEN IF IsJsonCall(e)
              THEN visit_conversion_expr(v, e.args[1])
              ELSE visit_exprs(v, e.args)
    ELSE IF e.kind = "return" THEN visit_exprs(v, e.args)
    ELSE IF e.kind = "method_call"
         THEN visit_exprs(visit_expr(v, e.recv[1]), e.args)
    ELSE IF e.kind = "block" THEN visit_block(v, e.stmts)
    ELSE IF e.kind = "if"
         THEN visit_exprs(visit_block(visit_expr(v, e.recv[1]), e.stmts), e.args)
    ELSE IF e.kind = "match"
         THEN visit_exprs(visit_expr(v, e.recv[1]), e.args)
    ELSE v

\* `for arg in args { self.visit_expr(arg) }`
visit_exprs(v, es) ==
    IF es = <<>> THEN v ELSE visit_exprs(visit_expr(v, es[1]), Tail(es))

visit_stmt(v, s) ==
    IF already_found(v) THEN v
    ELSE IF s.kind = "expr" THEN visit_expr(v, s.expr[1])
    ELSE IF s.kind = "local" THEN visit_exprs(v, s.expr)
    ELSE v

\* `for stmt in stmts { self.visit_stmt(stmt) }`
visit_stmts(v, ss) ==
    IF ss = <<>> THEN v ELSE visit_stmts(visit_stmt(v, ss[1]), Tail(ss))

\* `if let Some(Stmt::Expr(expr, _)) = stmts.last() { self.visit_expr(expr) }`
visit_tail(v, ss) ==
    IF ss # <<>> /\ Last(ss).kind = "expr" THEN visit_expr(v, Last(ss).expr[1]) ELSE v

\* the statements of a block, then its last statement once more as tail expression
visit_block(v, ss) == visit_tail(visit_stmts(v, ss), ss)

visit_item_fn(v, f) == visit_block(v, f.stmts)

extract_return_type_from_body(f) == visit_item_fn(DefaultReturnType, f)

-----------------------------------------------------------------------------
(* parser/handlers.rs: extract_handler_info *)

BodyWrappers == { Id_Json, Id_JsonValidate, Id_JsonValidateWithMessage }

\* Json<T>, JsonValidate<T> or JsonValidateWithMessage<T> with T a type path
body_param_of(input) ==
    IF input.typed /\ input.ty.kind = "path" /\ input.ty.name \in BodyWrappers
    THEN input.ty.targ
    ELSE None

\* a check of the parameter name alone
is_auth_param_by_name(input) ==
    input.typed /\ input.pat = Some(Id_auth)

\* `auth: JWT`: a Pat::Ident named auth whose type is a path ending in JWT
is_auth_param(input) ==
    /\ input.typed
    /\ input.pat = Some(Id_auth)
    /\ input.ty.kind = "path"
    /\ input.ty.name = Id_JWT

\* one iteration of `for input in &func.sig.inputs` on (body_param, requires_auth)
scan_input(st, input) ==
    [body_param |-> IF IsSome(body_param_of(input)) THEN body_param_of(input)
                    ELSE st.body_param,
     requires_auth |-> st.requires_auth \/ is_auth_param(input)]

RECURSIVE scan_inputs(_, _)
scan_inputs(st, inputs) ==
    IF inputs = <<>> THEN st ELSE scan_inputs(scan_input(st, inputs[1]), Tail(inputs))

\* the HandlerInfo inserted for one function
HandlerInfo(body, auth, return_type) ==
    [body_param |-> body, requires_auth |-> auth, return_type |-> return_type,
     query_params |-> None]

handler_info_of(f) ==
    LET st == scan_inputs([body_param |-> None, requires_auth |-> FALSE], f.inputs)
    IN  HandlerInfo(st.body_param, st.requires_auth, extract_return_type_from_body(f))

\* HashMap<String, HandlerInfo>: a later function of the same name replaces an earlier one
extract_handler_info(items) ==
    [n \in { items[i].name : i \in 1..Len(items) } |->
        LET k == CHOOSE i \in 1..Len(items) :
                    /\ items[i].name = n
                    /\ \A j \in (i + 1)..Len(items) : items[j].name # n
        IN  handler_info_of(items[k])]

-----------------------------------------------------------------------------
(* lib.rs: the signature fallback of extract_handler_info *)

\* extract_return_type(return_ty): Result<T, ..> and Json<T> give T, another type
\* path gives its own name, impl Trait and the rest give None
extract_return_type(return_ty) ==
    IF return_ty.kind = "path"
    THEN IF return_ty.name \in { Id_Result, Id_Json }
         THEN return_ty.targ
         ELSE Some(return_ty.name)
    ELSE None

-----------------------------------------------------------------------------
(* The functions of a controller file *)

\* handler names are identifiers of the file; h1 is a function of it, h2 is not
Handlers == { "h1", "h2" }

\* async fn h1(auth: JWT, Json(p): Json<Gadget>) -> Result<Response> {
\*     format::json(Widget::from(item))
\* }
FnH1 ==
    ItemFn("h1",
           << Typed(Some(Id_auth), TypePath(Id_JWT, None)),
              Typed(None, TypePath(Id_Json, Some(Id_Gadget))) >>,
           Some(TypePath(Id_Result, Some(Id_Response))),
           << SExpr(ECall(<<Id_format, Id_json>>, None,
                          << ECall(<<Id_Widget, Id_from>>, None, <<EPath>>) >>)) >>)

\* pub fn routes() -> Routes { Routes::new().add("/", get(h1)) }
FnRoutes ==
    ItemFn("routes", <<>>, Some(TypePath(<<"R","o","u","t","e","s">>, None)),
           << SExpr(EMethodCall(ECall(<<<<"R","o","u","t","e","s">>, Id_new>>, None, <<>>),
                                <<"a","d","d">>,
                                << EOther, ECall(<<<<"g","e","t">>>>, None, <<EPath>>) >>)) >>)

ControllerItems == << FnH1, FnRoutes >>

-----------------------------------------------------------------------------
(* parser/mod.rs: extract_routes_from_expr *)

\* the state the recursion threads through: routes, prefix and the `?` outcome
ExtractState(rs, pfx, err) == [routes |-> rs, prefix |-> pfx, err |-> err]

\* a "prefix" arm that stores the literal as written
normalize_prefix_raw(lit) == lit

\* "prefix" arm: *prefix = lit; if !prefix.starts_with('/') { "/" + prefix }
normalize_prefix(lit) ==
    IF StartsWith(lit, <<"/">>) THEN lit ELSE <<"/">> \o lit

\* an "add" arm that ignores an argument it cannot extract
add_error_ignored(c) == ""

\* "add" arm: the two ok_or(..)? of the path and of the method and handler
add_error(c) ==
    IF c.kind = "add_bad_path" THEN "Failed to extract path from add() call"
    ELSE IF c.kind = "add_bad_method"
         THEN "Failed to extract HTTP method and handler from add() call"
         ELSE ""

\* an "add" arm that stores the naming copy of the path as the route's path
route_of_add_stripped(c, pfx, naming) ==
    LET full_path == build_full_path(pfx, c.lit)
        method == ToUppercase(c.verb)
    IN  RouteInfo(generate_route_name(full_path, method, naming),
                  name_path_of(full_path, naming), method, c.handler,
                  DefaultHandlerInfo)

\* "add" arm: the RouteInfo pushed for a well-formed add call
route_of_add(c, pfx, naming) ==
    LET full_path == build_full_path(pfx, c.lit)
        method == ToUppercase(c.verb)
    IN  RouteInfo(generate_route_name(full_path, method, naming),
                  full_path, method, c.handler, DefaultHandlerInfo)

\* the match on the method name, after the receiver has been processed
process_method_call(c, st, naming) ==
    IF c.kind = "prefix"
    THEN ExtractState(st.routes, normalize_prefix(c.lit), "")
    ELSE IF c.kind \in {"add", "add_bad_path", "add_bad_method"}
    THEN IF add_error(c) # ""
         THEN ExtractState(st.routes, st.prefix, add_error(c))
         ELSE IF c.kind = "add"
              THEN ExtractState(Append(st.routes, route_of_add(c, st.prefix, naming)),
                                st.prefix, "")
              ELSE st
    ELSE st

\* a Call arm that leaves the prefix of the previous chain in place
process_base_keep(b, pfx) == pfx

\* the Expr::Call arm: a call of a path ending in `new` resets the prefix
process_base(b, pfx) == IF b.kind = "new" THEN <<>> ELSE pfx

\* a recursion that handles the outermost pending call first
next_frame_outermost(stk) == 1

\* the frame the recursion handles next: the receiver is processed FIRST, so
\* of the pending calls the innermost (the last one entered) is handled next
next_frame(stk) == Len(stk)

-----------------------------------------------------------------------------
(* utils/case.rs: convert_to_case *)

\* The words of an identifier as the convert_case crate splits it: at the
\* delimiters '_', '-' and ' ' (which are dropped) and between a lower-case and an
\* upper-case letter.  (Its digit and acronym boundaries concern characters that
\* the route names of this model do not contain.)
WordDelimiters == { "_", "-", " " }
RECURSIVE SplitWordsFrom(_, _, _)
SplitWordsFrom(s, cur, acc) ==
    LET flushed == IF cur = <<>> THEN acc ELSE Append(acc, cur)
    IN  IF s = <<>> THEN flushed
        ELSE IF s[1] \in WordDelimiters
             THEN SplitWordsFrom(Tail(s), <<>>, flushed)
             ELSE IF IsUpper(s[1]) /\ cur # <<>> /\ IsLower(cur[Len(cur)])
                  THEN SplitWordsFrom(Tail(s), <<s[1]>>, flushed)
                  ELSE SplitWordsFrom(Tail(s), Append(cur, s[1]), acc)
SplitWords(s) == SplitWordsFrom(s, <<>>, <<>>)

Capitalize(w) ==
    IF w = <<>> THEN w ELSE <<CharToUpper(w[1])>> \o ToLowercase(Tail(w))

RECURSIVE JoinWords(_, _)
JoinWords(ws, sep) ==
    IF ws = <<>> THEN <<>>
    ELSE IF Len(ws) = 1 THEN ws[1]
         ELSE ws[1] \o sep \o JoinWords(Tail(ws), sep)

MapWords(ws, first_cap, rest_cap) ==
    [i \in 1..Len(ws) |->
        IF (i = 1 /\ first_cap) \/ (i > 1 /\ rest_cap)
        THEN Capitalize(ws[i]) ELSE ToLowercase(ws[i])]

convert_to_case(input, case) ==
    LET ws == SplitWords(input)
    IN  IF case = "camel" THEN JoinWords(MapWords(ws, FALSE, TRUE), <<>>)
        ELSE IF case = "pascal" THEN JoinWords(MapWords(ws, TRUE, TRUE), <<>>)
        ELSE IF case = "snake" THEN JoinWords(MapWords(ws, FALSE, FALSE), <<"_">>)
        ELSE IF case = "kebab" THEN JoinWords(MapWords(ws, FALSE, FALSE), <<"-">>)
        ELSE IF case = "title" THEN JoinWords(MapWords(ws, TRUE, TRUE), <<" ">>)
        ELSE IF case = "lower" THEN ToLowercase(input)
        ELSE IF case = "upper" THEN ToUppercase(input)
        ELSE input

-----------------------------------------------------------------------------
(* utils/path.rs: extract_parameters_from_path *)

\* str::split(char)
RECURSIVE SplitOnFrom(_, _, _, _)
SplitOnFrom(s, c, cur, acc) ==
    IF s = <<>> THEN Append(acc, cur)
    ELSE IF s[1] = c THEN SplitOnFrom(Tail(s), c, <<>>, Append(acc, cur))
         ELSE SplitOnFrom(Tail(s), c, Append(cur, s[1]), acc)
SplitOn(s, c) == SplitOnFrom(s, c, <<>>, <<>>)

IsParamSegment(seg) ==
    Len(seg) >= 2 /\ seg[1] = "{" /\ seg[Len(seg)] = "}"
ParamNameOf(seg) == SubSeq(seg, 2, Len(seg) - 1)

\* params.retain(|p| seen.insert(p.clone())): first occurrences, in order
RECURSIVE DedupStrings(_, _)
DedupStrings(ps, seen) ==
    IF ps = <<>> THEN <<>>
    ELSE IF ps[1] \in seen THEN DedupStrings(Tail(ps), seen)
         ELSE <<ps[1]>> \o DedupStrings(Tail(ps), seen \cup {ps[1]})

extract_parameters_from_path(path) ==
    LET segs == SelectSeq(SplitOn(path, "/"), IsParamSegment)
    IN  DedupStrings([i \in 1..Len(segs) |-> ParamNameOf(segs[i])], {})

-----------------------------------------------------------------------------
(* generators/rust.rs *)

create_variant_name(name, naming) ==
    LET case == UnwrapOr(naming.variant_case, "pascal")
        r0 == convert_to_case(name, case)
        r1 == IF IsSome(naming.variant_prefix)
              THEN Unwrap(naming.variant_prefix) \o r0 ELSE r0
        r2 == IF IsSome(naming.variant_suffix)
              THEN r1 \o Unwrap(naming.variant_suffix) ELSE r1
    IN  sanitize_identifier(r2)

create_field_name(name, naming) ==
    sanitize_identifier(convert_to_case(name, UnwrapOr(naming.field_case, "snake")))

IsNonEmpty(seg) == seg # <<>>

PushChar(c) == [op |-> "push", arg |-> <<c>>]
PushField(f) == [op |-> "push_str_field", arg |-> f]
PushLit(l) == [op |-> "push_str_lit", arg |-> l]

\* the push operations emitted for segments i..Len(segs) of the template
RECURSIVE PushOperationsFrom(_, _, _)
PushOperationsFrom(segs, i, fields) ==
    IF i > Len(segs) THEN <<>>
    ELSE LET seg == segs[i]
             slash == IF i > 1 THEN <<PushChar("/")>> ELSE <<>>
             field_ident == convert_to_case(ParamNameOf(seg), "snake")
             piece == IF IsParamSegment(seg) /\ field_ident \in Range(fields)
                      THEN PushField(field_ident)
                      ELSE PushLit(seg)
         IN  slash \o <<piece>> \o PushOperationsFrom(segs, i + 1, fields)

LiteralCode(path) == [kind |-> "literal", path |-> path, ops |-> <<>>]
BuildCode(ops) == [kind |-> "build", path |-> <<>>, ops |-> ops]

generate_path_build_code(path_template, fields) ==
    LET segments == SelectSeq(SplitOn(path_template, "/"), IsNonEmpty)
        push_operations == PushOperationsFrom(segments, 1, fields)
    IN  IF push_operations = <<>>
        THEN LiteralCode(<<"/">>)
        ELSE BuildCode(push_operations)

\* a diagnostic that tells the name of the route instead of its path
DupRouteDiag_named(r) ==
    [kind |-> "Duplicate route skipped", name |-> r.name,
     method |-> r.method, path |-> <<>>, method2 |-> <<>>, path2 |-> <<>>]

\* the diagnostics written with eprintln!: the values the message is made of
DupRouteDiag(r) ==
    [kind |-> "Duplicate route skipped", name |-> <<>>,
     method |-> r.method, path |-> r.path, method2 |-> <<>>, path2 |-> <<>>]
DupVariantDiag(vname, r, existing) ==
    [kind |-> "Duplicate variant name", name |-> vname,
     method |-> r.method, path |-> r.path,
     method2 |-> existing.method, path2 |-> existing.path]

GenState(vs, mas, meths, uniq, dg) ==
    [variants |-> vs, match_arms |-> mas, method_arms |-> meths,
     unique_variants |-> uniq, diag |-> dg]

\* a duplicate check that never finds the name
variant_is_taken_never(vname, uniq) == FALSE

\* unique_variants.get(&variant_name_str) is Some
variant_is_taken(vname, uniq) == vname \in DOMAIN uniq

\* one iteration of the loop over the routes in RustLinksGenerator::generate
generate_route(route, st, naming) ==
    LET variant_name == create_variant_name(route.name, naming)
    IN  IF variant_is_taken(variant_name, st.unique_variants)
        THEN [st EXCEPT !.diag =
                 Append(@, DupVariantDiag(variant_name, route,
                                          st.unique_variants[variant_name]))]
        ELSE LET uniq == [n \in DOMAIN st.unique_variants \cup {variant_name} |->
                             IF n = variant_name THEN route ELSE st.unique_variants[n]]
                 path_params == extract_parameters_from_path(route.path)
                 fields == [i \in 1..Len(path_params) |->
                               create_field_name(path_params[i], naming)]
                 code == IF path_params = <<>>
                         THEN LiteralCode(route.path)
                         ELSE generate_path_build_code(route.path, fields)
             IN  GenState(
                    Append(st.variants, [name |-> variant_name, fields |-> fields]),
                    Append(st.match_arms,
                           [variant |-> variant_name, fields |-> fields, code |-> code]),
                    Append(st.method_arms,
                           [variant |-> variant_name, method |-> route.method]),
                    uniq,
                    st.diag)

-----------------------------------------------------------------------------
(* generators/typescript/imports.rs: TypeImportManager *)

EndsWith(s, p) ==
    Len(p) <= Len(s) /\ SubSeq(s, Len(s) - Len(p) + 1, Len(s)) = p

\* str::trim, for the blanks a type string can hold
RECURSIVE Trim(_)
Trim(s) ==
    IF s # <<>> /\ s[1] = " " THEN Trim(Tail(s))
    ELSE IF s # <<>> /\ s[Len(s)] = " " THEN Trim(SubSeq(s, 1, Len(s) - 1))
    ELSE s

TsBuiltinNames ==
    { <<"s","t","r","i","n","g">>,
      <<"n","u","m","b","e","r">>,
      <<"b","o","o","l","e","a","n">>,
      <<"a","n","y">>,
      <<"v","o","i","d">>,
      <<"u","n","k","n","o","w","n">>,
      <<"n","u","l","l">>,
      <<"u","n","d","e","f","i","n","e","d">>,
      <<"A","r","r","a","y">>,
      <<"P","r","o","m","i","s","e">> }
is_builtin_type(type_name) == type_name \in TsBuiltinNames

Str_ArrayLt == <<"A","r","r","a","y","<">>
Str_OptionLt == <<"O","p","t","i","o","n","<">>
Str_ResultLt == <<"R","e","s","u","l","t","<">>

\* the type inside Array<..> and Option<..>, the success type of Result<.., ..>
extract_generic_inner_type(type_str) ==
    IF StartsWith(type_str, Str_ArrayLt) /\ EndsWith(type_str, <<">">>)
    THEN Some(SubSeq(type_str, 7, Len(type_str) - 1))
    ELSE IF StartsWith(type_str, Str_OptionLt) /\ EndsWith(type_str, <<">">>)
    THEN Some(SubSeq(type_str, 8, Len(type_str) - 1))
    ELSE IF StartsWith(type_str, Str_ResultLt) /\ EndsWith(type_str, <<">">>)
    THEN Some(Trim(SplitOn(SubSeq(type_str, 8, Len(type_str) - 1), ",")[1]))
    ELSE None

\* extract_importable_types(&mut self, type_str), on the set type_imports
RECURSIVE extract_importable_types(_, _)
extract_importable_types(imports, type_str) ==
    LET inner_type == extract_generic_inner_type(type_str)
    IN  IF IsSome(inner_type)
        THEN extract_importable_types(imports, Unwrap(inner_type))
        ELSE IF ~is_builtin_type(type_str)
             THEN imports \cup { type_str }
             ELSE imports

\* one iteration of `for route in routes` of collect_from_routes
collect_from_route(imports, route) ==
    LET info == route.handler_info
        with_body == IF IsSome(info.body_param)
                     THEN extract_importable_types(imports, Unwrap(info.body_param))
                     ELSE imports
    IN  IF IsSome(info.return_type.found_type) /\ info.return_type.is_importable
        THEN extract_importable_types(with_body, Unwrap(info.return_type.found_type))
        ELSE with_body

RECURSIVE collect_from_routes(_, _)
collect_from_routes(imports, rs) ==
    IF rs = <<>> THEN imports
    ELSE collect_from_routes(collect_from_route(imports, rs[1]), Tail(rs))

-----------------------------------------------------------------------------
(* generators/typescript/client.rs and hooks.rs *)

Ts_any == <<"a","n","y">>
Ts_void == <<"v","o","i","d">>
Ts_ApiError == <<"A","p","i","E","r","r","o","r">>
Ts_Params == <<"P","a","r","a","m","s">>
Ts_use == <<"u","s","e">>
Ts_params_dot == <<"$","{","p","a","r","a","m","s",".">>
Str_GET == <<"G","E","T">>

\* route.handler_info.query_params: the name of the type of the query parameters.
\* extract_handler_info never fills it; a caller of the generators can
query_params_of(info) == info.query_params

\* a rendering of an unresolved type as void
ts_return_type_void(info) == UnwrapOr(info.return_type.found_type, Ts_void)

\* route.handler_info.return_type.found_type.as_deref().unwrap_or("any")
ts_return_type(info) == UnwrapOr(info.return_type.found_type, Ts_any)

\* generate_route_error_union: the members of the union, joined with " | "
generate_route_error_union(route) ==
    <<Ts_ApiError>> \o route.handler_info.return_type.error_types

\* the segments of the template, '/' before every segment but the one of index 0
RECURSIVE TemplateFrom(_, _)
TemplateFrom(segments, i) ==
    IF i > Len(segments) THEN <<>>
    ELSE LET segment == segments[i]
             rest == TemplateFrom(segments, i + 1)
         IN  IF segment = <<>> THEN rest
             ELSE (IF i > 1 THEN <<"/">> ELSE <<>>)
                  \o (IF StartsWith(segment, <<"{">>) /\ EndsWith(segment, <<"}">>)
                         /\ Len(segment) >= 2
                      THEN Ts_params_dot
                           \o convert_to_case(SubSeq(segment, 2, Len(segment) - 1), "camel")
                           \o <<"}">>
                      ELSE segment)
                  \o rest

\* the character U+0060, which a TLA+ string cannot hold
Backtick == "bt"

generate_ts_path_template(path) ==
    LET template == TemplateFrom(SplitOn(path, "/"), 1)
        temp == IF template = <<>> THEN <<"/">>
                ELSE IF ~StartsWith(template, <<"/">>) THEN <<"/">> \o template
                ELSE template
    IN  <<Backtick>> \o temp \o <<Backtick>>

\* the name of the parameter interface of a client method
params_type_of(method_name) == convert_to_case(method_name, "pascal") \o Ts_Params

\* the parameters of a method or hook after the presence of path parameters, query
\* parameters and a body: (params: ..Params)? (query: Q)? (body: B)?
TsArgs(method_name, has_path_params, query_type, has_query_params, body_type, has_body) ==
    (IF has_path_params
     THEN << [name |-> "params", type |-> params_type_of(method_name)] >> ELSE <<>>)
    \o (IF has_query_params THEN << [name |-> "query", type |-> query_type] >> ELSE <<>>)
    \o (IF has_body THEN << [name |-> "body", type |-> body_type] >> ELSE <<>>)

\* a client method that never asks for the token
requires_auth_of_never(route) == FALSE

\* let requires_auth = route.handler_info.requires_auth
requires_auth_of(route) == route.handler_info.requires_auth

\* generate_client_method: what the emitted method is made of
generate_client_method(route, method_name, path_params) ==
    LET body_type == UnwrapOr(route.handler_info.body_param, Ts_void)
        query_type == UnwrapOr(query_params_of(route.handler_info), Ts_void)
        has_path_params == path_params # <<>>
        has_query_params == IsSome(query_params_of(route.handler_info))
        has_body == route.method # Str_GET /\ body_type # Ts_void
        is_get == route.method = Str_GET
        method_call ==
            IF is_get THEN "get"
            ELSE IF route.method = <<"P","O","S","T">> THEN "post"
            ELSE IF route.method = <<"P","U","T">> THEN "put"
            ELSE IF route.method = <<"P","A","T","C","H">> THEN "patch"
            ELSE IF route.method = <<"D","E","L","E","T","E">> THEN "delete"
            ELSE "post"
    IN  [name |-> method_name,
         args |-> TsArgs(method_name, has_path_params, query_type, has_query_params,
                         body_type, has_body),
         returns |-> ts_return_type(route.handler_info),
         errors |-> generate_route_error_union(route),
         url |-> generate_ts_path_template(route.path),
         query_string |-> has_query_params,
         method_call |-> method_call,
         data |-> IF is_get THEN "none" ELSE IF has_body THEN "body" ELSE "undefined",
         requires_auth |-> requires_auth_of(route)]

\* an interface that leaves out the last parameter
interface_fields_short(params) ==
    [i \in 1..(Len(params) - 1) |-> convert_to_case(params[i], "camel")]

\* the fields of generate_ts_interface: `<camel case of the parameter>: string`
interface_fields(params) ==
    [i \in 1..Len(params) |-> convert_to_case(params[i], "camel")]

generate_ts_interface(method_name, suffix, params) ==
    [name |-> convert_to_case(method_name, "pascal") \o suffix,
     fields |-> interface_fields(params)]

\* one iteration of `for route in routes` of TypeScriptClientGenerator::generate
client_route(route) ==
    LET method_name == convert_to_case(route.name, "camel")
        path_params == extract_parameters_from_path(route.path)
    IN  [interface |-> IF path_params # <<>>
                       THEN Some(generate_ts_interface(method_name, Ts_Params, path_params))
                       ELSE None,
         method |-> generate_client_method(route, method_name, path_params)]

\* a hook that hands the body to the client method before the query
hook_call_args_body_first(is_get, has_path_params, has_query_params, has_body) ==
    (IF has_path_params THEN <<"params">> ELSE <<>>)
    \o (IF has_body /\ ~is_get THEN <<"body">> ELSE <<>>)
    \o (IF has_query_params THEN <<"query">> ELSE <<>>)

\* the arguments the hook passes to client.#method_name before { signal }, after the
\* branches of generate_ts_hook
hook_call_args(is_get, has_path_params, has_query_params, has_body) ==
    IF is_get
    THEN IF ~has_path_params /\ ~has_query_params THEN <<>>
         ELSE IF has_path_params /\ ~has_query_params THEN <<"params">>
         ELSE IF ~has_path_params /\ has_query_params THEN <<"query">>
         ELSE <<"params", "query">>
    ELSE IF ~has_path_params /\ ~has_query_params /\ ~has_body THEN <<>>
         ELSE IF has_path_params /\ ~has_query_params /\ ~has_body THEN <<"params">>
         ELSE IF ~has_path_params /\ has_query_params /\ ~has_body THEN <<"query">>
         ELSE IF has_path_params /\ has_query_params /\ ~has_body
              THEN <<"params", "query">>
         ELSE IF ~has_path_params /\ ~has_query_params /\ has_body THEN <<"body">>
         ELSE IF has_path_params /\ ~has_query_params /\ has_body
              THEN <<"params", "body">>
         ELSE IF ~has_path_params /\ has_query_params /\ has_body
              THEN <<"query", "body">>
         ELSE <<"params", "query", "body">>

\* queryKey: [#method_name_str, params?, query?] of the useQuery branches
hook_query_key(method_name, has_path_params, has_query_params) ==
    [name |-> method_name,
     parts |-> IF ~has_path_params /\ ~has_query_params THEN <<>>
               ELSE IF has_path_params /\ ~has_query_params THEN <<"params">>
               ELSE IF ~has_path_params /\ has_query_params THEN <<"query">>
               ELSE <<"params", "query">>]

\* generate_ts_hook: what the emitted hook is made of
generate_ts_hook(route, method_name, hook_name, path_params) ==
    LET body_type == UnwrapOr(route.handler_info.body_param, Ts_void)
        query_type == UnwrapOr(query_params_of(route.handler_info), Ts_void)
        has_path_params == path_params # <<>>
        has_query_params == IsSome(query_params_of(route.handler_info))
        has_body == route.method # Str_GET /\ body_type # Ts_void
        is_get == route.method = Str_GET
        call_args == hook_call_args(is_get, has_path_params, has_query_params, has_body)
        type_of(a) == IF a = "params" THEN params_type_of(method_name)
                      ELSE IF a = "query" THEN query_type
                      ELSE body_type
    IN  [name |-> hook_name,
         kind |-> IF is_get THEN "useQuery" ELSE "useMutation",
         client_method |-> method_name,
         args |-> TsArgs(method_name, has_path_params, query_type, has_query_params,
                         body_type, has_body),
         call_args |-> [i \in 1..Len(call_args) |->
                           [name |-> call_args[i], type |-> type_of(call_args[i])]],
         passes_signal |-> is_get,
         query_key |-> IF is_get
                       THEN Some(hook_query_key(method_name, has_path_params,
                                                has_query_params))
                       ELSE None,
         returns |-> ts_return_type(route.handler_info),
         errors |-> <<Ts_ApiError>>]

\* one iteration of `for route in routes` of TypeScriptHooksGenerator::generate
hook_route(route) ==
    LET method_name == convert_to_case(route.name, "camel")
        hook_name == Ts_use \o convert_to_case(route.name, "pascal")
        path_params == extract_parameters_from_path(route.path)
    IN  generate_ts_hook(route, method_name, hook_name, path_params)

\* a hooks generator that imports a parameter interface for every route
client_imports_of_every_route(route) ==
    << convert_to_case(convert_to_case(route.name, "camel"), "pascal") \o Ts_Params >>

\* the same iteration: what it pushes to client_imports (without the word `type`)
client_imports_of(route) ==
    LET method_name == convert_to_case(route.name, "camel")
        path_params == extract_parameters_from_path(route.path)
    IN  (IF path_params # <<>>
         THEN << convert_to_case(method_name, "pascal") \o Ts_Params >> ELSE <<>>)
        \o query_params_of(route.handler_info)

-----------------------------------------------------------------------------
(* parser/mod.rs: scan_controllers_folder *)

\* a key that tells routes of different handlers apart
RouteKey_with_handler(r) == <<r.method, r.path, r.handler>>

\* the key of the retain closure: (route.method, route.path)
RouteKey(r) == <<r.method, r.path>>

\* a retain closure that never records the key it has seen
seen_after_forgetful(seen, r) == seen

\* seen.insert(key) of the retain closure
seen_after(seen, r) == seen \cup { RouteKey(r) }

\* routes.retain(..): the routes kept and the diagnostics written, in one pass
RECURSIVE RetainFrom(_, _, _, _, _)
RetainFrom(rs, i, seen, kept, dg) ==
    IF i > Len(rs) THEN [kept |-> kept, diag |-> dg]
    ELSE IF RouteKey(rs[i]) \in seen
         THEN RetainFrom(rs, i + 1, seen, kept, Append(dg, DupRouteDiag(rs[i])))
         ELSE RetainFrom(rs, i + 1, seen_after(seen, rs[i]), Append(kept, rs[i]), dg)
DedupRoutes(rs) == RetainFrom(rs, 1, {}, <<>>, <<>>)

\* a set of seen keys that outlives the call and holds the keys of earlier calls
seen_at_start_kept(earlier) == earlier

\* let mut seen = HashSet::new(): the set is made in the call, whatever keys
\* earlier calls have seen
seen_at_start(earlier) == {}

\* the directory entries the loop can meet
EntryKinds ==
    { "entry_err",    \* the iterator yields Err: `entry?`
      "not_file",     \* path.is_file() is false
      "mod_rs",       \* the file is mod.rs
      "not_rs",       \* the file name does not end in .rs
      "unreadable",   \* fs::read_to_string fails
      "unparsable",   \* syn::parse_file fails
      "rs" }          \* a controller file that parses

\* a scan that skips the files it cannot read or parse
entry_error_lenient(kind) ==
    IF kind = "entry_err" THEN "directory entry" ELSE ""

\* the error, if any, that an entry makes scan_controllers_folder return
entry_error(kind) ==
    IF kind = "entry_err" THEN "directory entry"
    ELSE IF kind = "unreadable" THEN "read_to_string"
    ELSE IF kind = "unparsable" THEN "Failed to parse"
    ELSE ""

\* a join that looks the handler up under the name of the route
join_handler_info_by_route_name(rs, hmap) ==
    [i \in 1..Len(rs) |->
        IF rs[i].name \in DOMAIN hmap
        THEN [rs[i] EXCEPT !.handler_info = hmap[rs[i].name]]
        ELSE rs[i]]

\* parse_routes_from_file: `if let Some(info) = handler_info_map.get(&route.handler)
\* { route.handler_info = info.clone() }`
join_handler_info(rs, hmap) ==
    [i \in 1..Len(rs) |->
        IF rs[i].handler \in DOMAIN hmap
        THEN [rs[i] EXCEPT !.handler_info = hmap[rs[i].handler]]
        ELSE rs[i]]

-----------------------------------------------------------------------------
(* Configurations and inputs *)

NamingConfig(include_method, strip, seps, vprefix) ==
    [include_method_in_names |-> include_method,
     path_prefix_to_remove |-> strip,
     variant_case |-> None,
     field_case |-> None,
     word_separators |-> seps,
     variant_prefix |-> vprefix,
     variant_suffix |-> None]

\* the configurations of a generation run
RunConfigs ==
    { NamingConfig(inc, None, None, None) : inc \in { None, Some(FALSE) } }
    \cup { NamingConfig(Some(FALSE), None, None, Some(<<"1">>)) }

\* the configurations generate_route_name is called with on its own
FnConfigs ==
    { NamingConfig(inc, strip, seps, None) :
        inc \in { None, Some(FALSE) },
        strip \in { None, Some(<<"/","a">>) },
        seps \in { None, Some(<<"-">>), Some(<<>>) } }

PathAlphabet == { "/", "a", "{" }
NameAlphabet == { "/", "a", "_", "-", "{", "1" }
Methods == { <<"G","E","T">>, <<"P","O","S","T">> }

NoCall == [fn |-> "none", a |-> <<>>, b |-> <<>>, naming |-> NamingConfig(None, None, None, None),
           out |-> <<>>]

-----------------------------------------------------------------------------
(* lib.rs: generate_links *)

\* typescript_client_output and generate_typescript_client of Config
TsConfig(generate, output) ==
    [generate_typescript_client |-> generate, typescript_client_output |-> output]
\* Config derives Default: both are None
DefaultTsConfig == TsConfig(None, None)

\* the value of generate_links: Result<String, Box<dyn Error>>
NoReturn == [kind |-> "none", code |-> <<>>, reason |-> ""]
OkCode(code) == [kind |-> "ok", code |-> <<code>>, reason |-> ""]
ErrReturn(reason) == [kind |-> "err", code |-> <<>>, reason |-> reason]

\* no run of generate_links has returned
NoPrevious == [runs |-> 0, keys |-> {}, scanned |-> <<>>, result |-> NoResult]

\* a generate_links that goes on to generate when the scan has failed
after_scan_lenient(res) == "generate"

\* `scan_controllers_folder(config)?`: where generate_links goes on after the scan
after_scan(res) == IF res.kind = "err" THEN "returned" ELSE "generate"

\* a generate_links that emits TypeScript whenever it is asked to, to a path of its own
\* when the configuration has none
emits_typescript_any_path(cfg) == UnwrapOr(cfg.generate_typescript_client, FALSE)

\* if config.generate_typescript_client.unwrap_or(false) {
\*     if let Some(ts_output) = &config.typescript_client_output { .. } }
emits_typescript(cfg) ==
    /\ UnwrapOr(cfg.generate_typescript_client, FALSE)
    /\ IsSome(cfg.typescript_client_output)

-----------------------------------------------------------------------------
(* Initial state *)

\* no function is being looked at, and nothing has been emitted
NoFn == ItemFn("", <<>>, None, <<>>)
InitHandlers ==
    /\ func = NoFn
    /\ body_param = None
    /\ requires_auth = FALSE
    /\ visitor = DefaultReturnType
    /\ stmt_i = 0
    /\ handler_info = <<>>
InitTs ==
    /\ ts_i = 1
    /\ type_imports = {}
    /\ interfaces = <<>>
    /\ client_methods = <<>>
    /\ hooks = <<>>
    /\ client_imports = <<>>

\* generate_links is not under way: the default configuration, nothing written
InitIdle ==
    /\ ts_config = DefaultTsConfig
    /\ written = <<>>
    /\ returned = NoReturn
    /\ previous = NoPrevious

InitRun ==
    /\ InitHandlers
    /\ InitTs
    /\ entries_seen = 0
    /\ last_entry = ""
    /\ routes = <<>>
    /\ file_routes = <<>>
    /\ prefix = <<>>
    /\ stack = <<>>
    /\ text = <<>>
    /\ decl = <<>>
    /\ scanned = <<>>
    /\ stmts_seen = 0
    /\ calls_seen = 0
    /\ diag = <<>>
    /\ result = NoResult
    /\ gen_i = 1
    /\ variants = <<>>
    /\ match_arms = <<>>
    /\ method_arms = <<>>
    /\ unique_variants = <<>>
    /\ call = NoCall

Init ==
    /\ config \in RunConfigs
    /\ pc = "start"
    /\ InitRun
    /\ InitIdle

genVars == <<gen_i, variants, match_arms, method_arms, unique_variants>>
handlerVars == <<func, body_param, requires_auth, visitor, stmt_i, handler_info>>
tsVars == <<ts_i, type_imports, interfaces, client_methods, hooks, client_imports>>
fileVars == <<file_routes, prefix, stack, text, decl, stmts_seen, calls_seen>>
linkVars == <<ts_config, written, returned, previous>>

-----------------------------------------------------------------------------
(* scan_controllers_folder *)

\* fs::read_dir(controllers_dir).map_err(..)?
ReadDir ==
    /\ pc = "start"
    /\ \E ok \in BOOLEAN :
         IF ok
         THEN pc' = "entries" /\ result' = result
         ELSE pc' = "failed" /\ result' = Err("Failed to read controllers directory")
    /\ UNCHANGED <<config, entries_seen, last_entry, routes, scanned, diag, call>>
    /\ UNCHANGED fileVars
    /\ UNCHANGED genVars
    /\ UNCHANGED <<handlerVars, tsVars, linkVars>>

\* one iteration of `for entry in entries` that does not open a routes function:
\* the entry fails, is skipped, or is a file that cannot be read or parsed
NextEntry ==
    /\ pc = "entries"
    /\ entries_seen < MaxEntries
    /\ entries_seen' = entries_seen + 1
    /\ \E kind \in EntryKinds \ {"rs"} :
         /\ last_entry' = kind
         /\ IF entry_error(kind) # ""
            THEN pc' = "failed" /\ result' = Err(entry_error(kind))
            ELSE pc' = pc /\ result' = result
    /\ UNCHANGED <<config, routes, scanned, diag, call>>
    /\ UNCHANGED fileVars
    /\ UNCHANGED genVars
    /\ UNCHANGED <<handlerVars, tsVars, linkVars>>

\* an iteration that reads and parses a controller file: parse_routes_from_file
\* enters extract_routes_from_axum_function with empty routes and prefix
OpenFile ==
    /\ pc = "entries"
    /\ entries_seen < MaxEntries
    /\ entries_seen' = entries_seen + 1
    /\ last_entry' = "rs"
    /\ pc' = "stmt"
    /\ file_routes' = <<>>
    /\ prefix' = <<>>
    /\ stack' = <<>>
    /\ text' = <<>>
    /\ decl' = <<>>
    /\ UNCHANGED <<config, routes, scanned, diag, result, call, stmts_seen, calls_seen>>
    /\ UNCHANGED genVars
    /\ UNCHANGED <<handlerVars, tsVars, linkVars>>

-----------------------------------------------------------------------------
(* extract_routes_from_axum_function and extract_routes_from_expr *)

\* `_ => {}`: a statement that is no Stmt::Expr
SkipStatement ==
    /\ pc = "stmt"
    /\ stmts_seen < MaxStmts
    /\ stmts_seen' = stmts_seen + 1
    /\ UNCHANGED <<config, pc, entries_seen, last_entry, routes, scanned, diag, result, call,
                   file_routes, prefix, stack, text, decl, calls_seen>>
    /\ UNCHANGED genVars
    /\ UNCHANGED <<handlerVars, tsVars, linkVars>>

\* Expr::MethodCall: the call is entered and the recursion goes into its receiver
\* before the call itself is handled
DescendCall(c) ==
    /\ pc \in {"stmt", "descend"}
    /\ pc = "stmt" => stmts_seen < MaxStmts
    /\ calls_seen < MaxCalls
    /\ calls_seen' = calls_seen + 1
    /\ stack' = Append(stack, [call |-> c, depth |-> Len(stack) + 1])
    /\ pc' = "descend"
    /\ UNCHANGED <<config, entries_seen, last_entry, routes, scanned, diag, result, call,
                   file_routes, prefix, decl, stmts_seen>>
    /\ UNCHANGED genVars
    /\ UNCHANGED <<handlerVars, tsVars, linkVars>>

Descend == \E c \in Calls : DescendCall(c) /\ UNCHANGED text

\* the innermost receiver: Expr::Call (a `new` resets the prefix) or `_ => {}`
BaseExpr(b) ==
    /\ pc \in {"stmt", "descend"}
    /\ pc = "stmt" => stmts_seen < MaxStmts
    /\ prefix' = process_base(MkBase(b), prefix)
    /\ IF stack = <<>>
       THEN pc' = "stmt" /\ stmts_seen' = stmts_seen + 1
       ELSE pc' = "unwind" /\ stmts_seen' = stmts_seen
    /\ UNCHANGED <<config, entries_seen, last_entry, routes, scanned, diag, result, call,
                   file_routes, stack, decl, calls_seen>>
    /\ UNCHANGED genVars
    /\ UNCHANGED <<handlerVars, tsVars, linkVars>>

Base == \E b \in BaseKinds : BaseExpr(b) /\ UNCHANGED text

RemoveAt(s, k) == SubSeq(s, 1, k - 1) \o SubSeq(s, k + 1, Len(s))

\* back from the receiver: `match method_name.as_str()` on a pending call; an Err
\* of an add leaves through every `?` up to scan_controllers_folder
UnwindCall ==
    /\ pc = "unwind"
    /\ stack # <<>>
    /\ LET k == next_frame(stack)
           st == process_method_call(stack[k].call,
                                     ExtractState(file_routes, prefix, ""), config)
       IN  /\ stack' = RemoveAt(stack, k)
           /\ file_routes' = st.routes
           /\ prefix' = st.prefix
           /\ IF st.err # ""
              THEN /\ pc' = "failed"
                   /\ result' = Err(st.err)
                   /\ stmts_seen' = stmts_seen
              ELSE /\ result' = result
                   /\ IF Len(stack) = 1
                      THEN pc' = "stmt" /\ stmts_seen' = stmts_seen + 1
                      ELSE pc' = pc /\ stmts_seen' = stmts_seen
    /\ UNCHANGED <<config, entries_seen, last_entry, routes, scanned, diag, call, text, calls_seen>>
    /\ UNCHANGED genVars
    /\ UNCHANGED <<handlerVars, tsVars, linkVars>>

Unwind == UnwindCall /\ UNCHANGED decl

\* the end of the routes function and the rest of parse_routes_from_file: the
\* handler information is joined and scan_controllers_folder extends its routes
EndFileOf(items) ==
    /\ pc = "stmt"
    /\ routes' = routes \o join_handler_info(file_routes, extract_handler_info(items))
    /\ pc' = "entries"
    /\ file_routes' = <<>>
    /\ prefix' = <<>>
    /\ text' = <<>>
    /\ decl' = <<>>
    /\ UNCHANGED <<config, entries_seen, last_entry, scanned, diag, result, call, stack,
                   stmts_seen, calls_seen>>
    /\ UNCHANGED genVars
    /\ UNCHANGED <<handlerVars, tsVars, linkVars>>

EndFile == EndFileOf(ControllerItems)

\* the end of the directory listing: routes.retain(..) and Ok(routes)
Dedup ==
    /\ pc = "entries"
    /\ LET d == RetainFrom(routes, 1, seen_at_start(previous.keys), <<>>, <<>>)
       IN  /\ scanned' = routes
           /\ routes' = d.kept
           /\ diag' = diag \o d.diag
           /\ result' = Ok(d.kept)
    /\ pc' = "generate"
    /\ UNCHANGED <<config, entries_seen, last_entry, call>>
    /\ UNCHANGED fileVars
    /\ UNCHANGED genVars
    /\ UNCHANGED <<handlerVars, tsVars, linkVars>>

-----------------------------------------------------------------------------
(* RustLinksGenerator::generate *)

GenRoute ==
    /\ pc = "generate"
    /\ gen_i <= Len(routes)
    /\ LET st == generate_route(routes[gen_i],
                                GenState(variants, match_arms, method_arms,
                                         unique_variants, diag),
                                config)
       IN  /\ variants' = st.variants
           /\ match_arms' = st.match_arms
           /\ method_arms' = st.method_arms
           /\ unique_variants' = st.unique_variants
           /\ diag' = st.diag
    /\ gen_i' = gen_i + 1
    /\ UNCHANGED <<config, pc, entries_seen, last_entry, routes, scanned, result, call>>
    /\ UNCHANGED fileVars
    /\ UNCHANGED <<handlerVars, tsVars, linkVars>>

GenFinish ==
    /\ pc = "generate"
    /\ gen_i > Len(routes)
    /\ pc' = "done"
    /\ UNCHANGED <<config, entries_seen, last_entry, routes, scanned, diag, result, call>>
    /\ UNCHANGED fileVars
    /\ UNCHANGED genVars
    /\ UNCHANGED <<handlerVars, tsVars, linkVars>>

Next ==
    \/ ReadDir
    \/ NextEntry
    \/ OpenFile
    \/ SkipStatement
    \/ Descend
    \/ Base
    \/ Unwind
    \/ EndFile
    \/ Dedup
    \/ GenRoute
    \/ GenFinish

Spec == Init /\ [][Next]_vars

-----------------------------------------------------------------------------
(* One routes function, with its source text recorded *)

\* the source text with x put in front of the statement being entered
InsertAtStatementStart(x) ==
    LET n == Len(text) - Len(stack)
    IN  SubSeq(text, 1, n) \o <<x>> \o SubSeq(text, n + 1, Len(text))

\* the configurations and the calls of the routes function: one strips /p from the
\* names, the other leaves the method out of them; one handler name is enough
ChainConfigs ==
    { NamingConfig(None, Some(<<"/","p">>), None, None),
      NamingConfig(Some(FALSE), None, None, None) }
ChainCalls == { c \in Calls : c.handler # "h2" }

\* extract_routes_from_axum_function is entered for a controller file
InitChain ==
    /\ config \in ChainConfigs
    /\ pc = "stmt"
    /\ entries_seen = 1
    /\ last_entry = "rs"
    /\ routes = <<>>
    /\ file_routes = <<>>
    /\ prefix = <<>>
    /\ stack = <<>>
    /\ text = <<>>
    /\ decl = <<>>
    /\ scanned = <<>>
    /\ stmts_seen = 0
    /\ calls_seen = 0
    /\ diag = <<>>
    /\ result = NoResult
    /\ gen_i = 1
    /\ variants = <<>>
    /\ match_arms = <<>>
    /\ method_arms = <<>>
    /\ unique_variants = <<>>
    /\ call = NoCall
    /\ InitHandlers
    /\ InitTs
    /\ InitIdle

\* Descend, with the call written down where it stands in the source: before the
\* calls of its statement entered so far
DescendTraced ==
    \E c \in ChainCalls : DescendCall(c) /\ text' = InsertAtStatementStart(c)

BaseTraced ==
    \E b \in BaseKinds : BaseExpr(b) /\ text' = InsertAtStatementStart(MkBase(b))

\* Unwind, with the source position, the prefix and the literal of every add that
\* pushed a route written down
UnwindTraced ==
    /\ UnwindCall
    /\ LET frame == stack[next_frame(stack)]
       IN  decl' = IF Len(file_routes') > Len(file_routes)
                   THEN Append(decl, [pos |-> Len(text) - frame.depth + 1,
                                      prefix |-> prefix,
                                      lit |-> frame.call.lit])
                   ELSE decl

NextChain ==
    \/ DescendTraced
    \/ BaseTraced
    \/ UnwindTraced
    \/ EndFile

SpecChain == InitChain /\ [][NextChain]_vars

-----------------------------------------------------------------------------
(* A controllers folder with one module:                                   *)
(*   pub fn routes() -> Routes {                                           *)
(*       Routes::new()                                                     *)
(*           .prefix("/v1")                                                *)
(*           .add("/widgets/{id}", get(get_widget))                        *)
(*           .add("/widgets/{id}", get(get_widget_dup))                    *)
(*   }                                                                     *)

Path_v1 == <<"/","v","1">>
Path_widgets_id == <<"/","w","i","d","g","e","t","s","/","{","i","d","}">>
Path_v1_widgets_id == <<"/","v","1","/","w","i","d","g","e","t","s","/","{","i","d","}">>
Name_get_v1_widgets_id == <<"g","e","t","_","v","1","_","w","i","d","g","e","t","s","_","i","d">>

\* the base and the method calls of the chain, in source order
ScenarioChain ==
    << MkBase("new"),
       MkCall("prefix", Path_v1, NoStr, ""),
       MkCall("add", Path_widgets_id, <<"g","e","t">>, "get_widget"),
       MkCall("add", Path_widgets_id, <<"g","e","t">>, "get_widget_dup") >>

\* async fn get_widget(auth: JWT) -> Result<Response> { format::json(Widget::from(w)) }
\* async fn get_widget_dup() -> Result<Response> { format::json(Gadget::from(w)) }
FnGetWidget ==
    ItemFn("get_widget", << Typed(Some(Id_auth), TypePath(Id_JWT, None)) >>,
           Some(TypePath(Id_Result, Some(Id_Response))),
           << SExpr(JsonOf(ConvFrom(Id_Widget))) >>)
FnGetWidgetDup ==
    ItemFn("get_widget_dup", <<>>, Some(TypePath(Id_Result, Some(Id_Response))),
           << SExpr(JsonOf(ConvFrom(Id_Gadget))) >>)
ScenarioItems == << FnGetWidget, FnGetWidgetDup, FnRoutes >>

\* default naming and other namings
ScenarioConfigs ==
    { NamingConfig(inc, strip, None, None) :
        inc \in { None, Some(TRUE), Some(FALSE) },
        strip \in { None, Some(Path_v1) } }

InitScenario ==
    /\ config \in ScenarioConfigs
    /\ pc = "start"
    /\ InitRun
    /\ InitIdle

\* the module is the only controller file of the folder
OpenScenario ==
    /\ routes = <<>>
    /\ stmts_seen = 0
    /\ OpenFile

\* the recursion enters the next method call of the chain, the outermost first
DescendScenario ==
    /\ stmts_seen = 0
    /\ Len(ScenarioChain) - Len(stack) >= 2
    /\ LET c == ScenarioChain[Len(ScenarioChain) - Len(stack)]
       IN  DescendCall(c) /\ text' = InsertAtStatementStart(c)

\* .. and reaches Routes::new()
BaseScenario ==
    /\ stmts_seen = 0
    /\ Len(ScenarioChain) - Len(stack) = 1
    /\ BaseExpr(ScenarioChain[1].kind)
    /\ text' = InsertAtStatementStart(ScenarioChain[1])

\* the routes function has the one statement
EndScenarioFile ==
    /\ stmts_seen = 1
    /\ EndFileOf(ScenarioItems)

NextScenario ==
    \/ ReadDir
    \/ NextEntry
    \/ OpenScenario
    \/ DescendScenario
    \/ BaseScenario
    \/ UnwindTraced
    \/ EndScenarioFile
    \/ Dedup
    \/ GenRoute
    \/ GenFinish

SpecScenario == InitScenario /\ [][NextScenario]_vars

-----------------------------------------------------------------------------
(* The pure functions, called on their own *)

PendingCall(fn, a, b, naming) ==
    [fn |-> fn, a |-> a, b |-> b, naming |-> naming, out |-> <<>>]

\* a call is drawn: the function and its arguments
InitFn ==
    /\ config = NoCall.naming
    /\ pc = "fn"
    /\ entries_seen = 0
    /\ last_entry = ""
    /\ routes = <<>>
    /\ file_routes = <<>>
    /\ prefix = <<>>
    /\ stack = <<>>
    /\ text = <<>>
    /\ decl = <<>>
    /\ scanned = <<>>
    /\ stmts_seen = 0
    /\ calls_seen = 0
    /\ diag = <<>>
    /\ result = NoResult
    /\ gen_i = 1
    /\ variants = <<>>
    /\ match_arms = <<>>
    /\ method_arms = <<>>
    /\ unique_variants = <<>>
    /\ InitHandlers
    /\ InitTs
    /\ InitIdle
    /\ call \in
         { PendingCall("build_full_path", p, q, NoCall.naming) :
             p \in StrUpTo(PathAlphabet, MaxLen), q \in StrUpTo(PathAlphabet, MaxLen) }
         \cup
         { PendingCall("generate_route_name", p, m, n) :
             p \in StrUpTo(NameAlphabet, MaxLen), m \in Methods, n \in FnConfigs }

fnFrame == <<config, entries_seen, last_entry, routes, scanned, diag, result,
             file_routes, prefix, stack, text, decl, stmts_seen, calls_seen,
             gen_i, variants, match_arms, method_arms, unique_variants,
             handlerVars, tsVars, linkVars>>

CallBuildFullPath ==
    /\ pc = "fn"
    /\ call.fn = "build_full_path"
    /\ call' = [call EXCEPT !.out = build_full_path(call.a, call.b)]
    /\ pc' = "returned"
    /\ UNCHANGED fnFrame

CallGenerateRouteName ==
    /\ pc = "fn"
    /\ call.fn = "generate_route_name"
    /\ call' = [call EXCEPT !.out = generate_route_name(call.a, call.b, call.naming)]
    /\ pc' = "returned"
    /\ UNCHANGED fnFrame

NextFn ==
    \/ CallBuildFullPath
    \/ CallGenerateRouteName

SpecFn == InitFn /\ [][NextFn]_vars

-----------------------------------------------------------------------------
(* extract_handler_info on one function, step by step *)

runFrame == <<config, entries_seen, last_entry, scanned, diag, result, call,
              file_routes, prefix, stack, text, decl, stmts_seen, calls_seen>>

\* `for input in &func.sig.inputs`, and the fresh visitor of the body analysis
ScanInputs ==
    /\ pc = "inputs"
    /\ LET st == scan_inputs([body_param |-> None, requires_auth |-> FALSE], func.inputs)
       IN  /\ body_param' = st.body_param
           /\ requires_auth' = st.requires_auth
    /\ visitor' = DefaultReturnType
    /\ stmt_i' = 0
    /\ pc' = "body"
    /\ UNCHANGED <<func, handler_info, routes>>
    /\ UNCHANGED <<runFrame, genVars, tsVars, linkVars>>

\* visit_item_fn: one iteration of `for stmt in &func.block.stmts`
VisitStmt ==
    /\ pc = "body"
    /\ stmt_i < Len(func.stmts)
    /\ visitor' = visit_stmt(visitor, func.stmts[stmt_i + 1])
    /\ stmt_i' = stmt_i + 1
    /\ UNCHANGED <<pc, func, body_param, requires_auth, handler_info, routes>>
    /\ UNCHANGED <<runFrame, genVars, tsVars, linkVars>>

\* visit_item_fn: the last statement once more, as the tail expression of the body
VisitTail ==
    /\ pc = "body"
    /\ stmt_i = Len(func.stmts)
    /\ visitor' = visit_tail(visitor, func.stmts)
    /\ pc' = "insert"
    /\ UNCHANGED <<func, body_param, requires_auth, stmt_i, handler_info, routes>>
    /\ UNCHANGED <<runFrame, genVars, tsVars, linkVars>>

\* handler_info.insert(handler_name, HandlerInfo { .. }); back in
\* parse_routes_from_file the routes get the information of their handlers
InsertHandlerInfo ==
    /\ pc = "insert"
    /\ LET inserted == [n \in DOMAIN handler_info \cup { func.name } |->
                           IF n = func.name
                           THEN HandlerInfo(body_param, requires_auth, visitor)
                           ELSE handler_info[n]]
       IN  /\ handler_info' = inserted
           /\ routes' = join_handler_info(routes, inserted)
    /\ pc' = "ts_collect"
    /\ UNCHANGED <<func, body_param, requires_auth, visitor, stmt_i>>
    /\ UNCHANGED <<runFrame, genVars, tsVars, linkVars>>

-----------------------------------------------------------------------------
(* TypeScriptClientGenerator::generate and TypeScriptHooksGenerator::generate *)

\* a TypeScript output is configured: the client generator starts
StartTs ==
    /\ pc = "done"
    /\ pc' = "ts_collect"
    /\ UNCHANGED <<routes, runFrame, genVars, handlerVars, tsVars, linkVars>>

\* type_manager.collect_from_routes(routes)
CollectImports ==
    /\ pc = "ts_collect"
    /\ type_imports' = collect_from_routes({}, routes)
    /\ ts_i' = 1
    /\ pc' = "ts_client"
    /\ UNCHANGED <<interfaces, client_methods, hooks, client_imports>>
    /\ UNCHANGED <<routes, runFrame, genVars, handlerVars, linkVars>>

\* one iteration of the loop of the client generator
ClientRoute ==
    /\ pc = "ts_client"
    /\ ts_i <= Len(routes)
    /\ LET r == client_route(routes[ts_i])
       IN  /\ interfaces' = interfaces \o r.interface
           /\ client_methods' = Append(client_methods, r.method)
    /\ ts_i' = ts_i + 1
    /\ UNCHANGED <<pc, type_imports, hooks, client_imports>>
    /\ UNCHANGED <<routes, runFrame, genVars, handlerVars, linkVars>>

\* the client is put together; the hooks generator starts and collects the same
\* imports with a manager of its own
ClientFinish ==
    /\ pc = "ts_client"
    /\ ts_i > Len(routes)
    /\ type_imports' = collect_from_routes({}, routes)
    /\ ts_i' = 1
    /\ pc' = "ts_hooks"
    /\ UNCHANGED <<interfaces, client_methods, hooks, client_imports>>
    /\ UNCHANGED <<routes, runFrame, genVars, handlerVars, linkVars>>

\* one iteration of the loop of the hooks generator
HookRoute ==
    /\ pc = "ts_hooks"
    /\ ts_i <= Len(routes)
    /\ hooks' = Append(hooks, hook_route(routes[ts_i]))
    /\ client_imports' = client_imports \o client_imports_of(routes[ts_i])
    /\ ts_i' = ts_i + 1
    /\ UNCHANGED <<pc, type_imports, interfaces, client_methods>>
    /\ UNCHANGED <<routes, runFrame, genVars, handlerVars, linkVars>>

\* format_ts_code(..) returns Ok: both files are emitted
HooksFinish ==
    /\ pc = "ts_hooks"
    /\ ts_i > Len(routes)
    /\ pc' = "ts_done"
    /\ UNCHANGED <<routes, runFrame, genVars, handlerVars, tsVars, linkVars>>

-----------------------------------------------------------------------------
(* generate_links on the controllers folder of the scenario, called again after *)
(* it has returned                                                              *)

\* most calls of generate_links in one process
MaxRuns == 2

\* the source of the link enum: generate_links_enum(&routes, config)
rust_code == [variants |-> variants, match_arms |-> match_arms, method_arms |-> method_arms]

\* the source of the client and its hooks: generate_ts_client_code(&routes)
ts_code == [type_imports |-> type_imports, interfaces |-> interfaces,
            client_methods |-> client_methods, hooks |-> hooks]

TsConfigs ==
    { TsConfig(generate, output) :
        generate \in { None, Some(TRUE), Some(FALSE) },
        output \in { None, Some("client.ts") } }

InitLinks ==
    /\ config \in ScenarioConfigs
    /\ pc = "start"
    /\ InitRun
    /\ ts_config \in TsConfigs
    /\ written = <<>>
    /\ returned = NoReturn
    /\ previous = NoPrevious

\* `let routes = scan_controllers_folder(config)?;` when the scan has failed
ScanFailed ==
    /\ pc = "failed"
    /\ pc' = after_scan(result)
    /\ returned' = IF after_scan(result) = "returned" THEN ErrReturn(result.reason)
                   ELSE returned
    /\ UNCHANGED <<routes, runFrame, genVars, handlerVars, tsVars>>
    /\ UNCHANGED <<ts_config, written, previous>>

\* the link enum is generated and no TypeScript is asked for, or there is no path to
\* write it to: Ok(rust_code)
SkipTs ==
    /\ pc = "done"
    /\ ~emits_typescript(ts_config)
    /\ returned' = OkCode(rust_code)
    /\ pc' = "returned"
    /\ UNCHANGED <<routes, runFrame, genVars, handlerVars, tsVars>>
    /\ UNCHANGED <<ts_config, written, previous>>

\* .. or generate_ts_client_code(&routes) is called
LinksStartTs ==
    /\ emits_typescript(ts_config)
    /\ StartTs

\* fs::write(ts_output, ts_code)?; and Ok(rust_code)
WriteTs ==
    /\ pc = "ts_done"
    /\ \E ok \in BOOLEAN :
         IF ok
         THEN /\ written' = Append(written, [path |-> ts_config.typescript_client_output,
                                             code |-> ts_code])
              /\ returned' = OkCode(rust_code)
         ELSE /\ written' = written
              /\ returned' = ErrReturn("write")
    /\ pc' = "returned"
    /\ UNCHANGED <<routes, runFrame, genVars, handlerVars, tsVars>>
    /\ UNCHANGED <<ts_config, previous>>

\* generate_links is called again in the same process, with the same configuration:
\* its locals are made anew, the files it wrote are there
RunAgain ==
    /\ pc = "returned"
    /\ previous.runs + 1 < MaxRuns
    /\ previous' = [runs |-> previous.runs + 1,
                    keys |-> previous.keys \cup { RouteKey(scanned[i]) : i \in 1..Len(scanned) },
                    scanned |-> scanned,
                    result |-> result]
    /\ returned' = NoReturn
    /\ pc' = "start"
    /\ entries_seen' = 0
    /\ last_entry' = ""
    /\ routes' = <<>>
    /\ file_routes' = <<>>
    /\ prefix' = <<>>
    /\ stack' = <<>>
    /\ text' = <<>>
    /\ decl' = <<>>
    /\ scanned' = <<>>
    /\ stmts_seen' = 0
    /\ calls_seen' = 0
    /\ diag' = <<>>
    /\ result' = NoResult
    /\ gen_i' = 1
    /\ variants' = <<>>
    /\ match_arms' = <<>>
    /\ method_arms' = <<>>
    /\ unique_variants' = <<>>
    /\ ts_i' = 1
    /\ type_imports' = {}
    /\ interfaces' = <<>>
    /\ client_methods' = <<>>
    /\ hooks' = <<>>
    /\ client_imports' = <<>>
    /\ UNCHANGED <<config, call, handlerVars, ts_config, written>>

NextLinks ==
    \/ ReadDir
    \/ NextEntry
    \/ OpenScenario
    \/ DescendScenario
    \/ BaseScenario
    \/ UnwindTraced
    \/ EndScenarioFile
    \/ Dedup
    \/ ScanFailed
    \/ GenRoute
    \/ GenFinish
    \/ SkipTs
    \/ LinksStartTs
    \/ CollectImports
    \/ ClientRoute
    \/ ClientFinish
    \/ HookRoute
    \/ HooksFinish
    \/ WriteTs
    \/ RunAgain

SpecLinks == InitLinks /\ [][NextLinks]_vars

-----------------------------------------------------------------------------
(* One handler function, from its syntax tree to the client method of its route *)

\* most parameters of a handler of the model
MaxInputs == 2
\* most statements of the body of a handler of the model
MaxBodyStmts == 2

\* the json calls that stand on their own in a body
JsonLeaves ==
    { JsonOf(ConvFrom(Id_Widget)), JsonOf(VecNew(Id_Gadget)), JsonOf(VecNew(Id_i32)),
      JsonOf(Ctor(Id_Gadget)), JsonOf(EPath), JsonOf(Into) }
\* the json calls nested in other expressions
InnerLeaves ==
    { JsonOf(ConvFrom(Id_Widget)), JsonOf(VecNew(Id_Gadget)), JsonOf(EPath) }

ExprsWide ==
    JsonLeaves
    \cup { EOther, ECall(<<Id_foo>>, None, <<EPath>>), EReturn(<<>>) }
    \cup { EReturn(<<l>>) : l \in InnerLeaves }
    \cup { ECall(<<Id_Ok>>, None, <<l>>) : l \in InnerLeaves }
    \cup { EMethodCall(l1, Id_foo, <<l2>>) : l1 \in InnerLeaves, l2 \in InnerLeaves }
    \cup { EBlock(<<SLocal(<<l1>>), SExpr(l2)>>) : l1 \in InnerLeaves, l2 \in InnerLeaves }
    \cup { EIf(EPath, <<SExpr(l1)>>, e) :
             l1 \in InnerLeaves,
             e \in { <<>> } \cup { <<EBlock(<<SExpr(l2)>>)>> : l2 \in InnerLeaves } }
    \cup { EMatch(EPath, <<l1, l2>>) : l1 \in InnerLeaves, l2 \in InnerLeaves }

StmtsWide ==
    { SExpr(e) : e \in ExprsWide }
    \cup { SLocal(<<l>>) : l \in InnerLeaves }
    \cup { SLocal(<<>>), SItem, SMacro }
StmtsNarrow ==
    { SExpr(l) : l \in InnerLeaves } \cup { SItem }

\* the bodies: one statement of any shape, before or after simple statements
Bodies ==
    { <<>> }
    \cup UNION { { <<w>> \o t : w \in StmtsWide, t \in StrOfLen(StmtsNarrow, n - 1) }
                 \cup { t \o <<w>> : w \in StmtsWide, t \in StrOfLen(StmtsNarrow, n - 1) } :
                 n \in 1..MaxBodyStmts }

\* the declared return types: none, impl IntoResponse, Result<Response>,
\* Result<Json<Widget>>, Json<Widget>, Widget, and a type that is no path
Outputs ==
    { None, Some(ImplTrait), Some(OtherType),
      Some(TypePath(Id_Result, Some(Id_Response))),
      Some(TypePath(Id_Result, Some(Id_Json))),
      Some(TypePath(Id_Json, Some(Id_Widget))),
      Some(TypePath(Id_Widget, None)) }

\* the parameters: auth: JWT, auth: Widget, auth: &JWT, token: JWT, JWT(auth): JWT,
\* Json(p): Json<Gadget>, Json(s): Json<String>, &self
Inputs ==
    { Typed(Some(Id_auth), TypePath(Id_JWT, None)),
      Typed(None, TypePath(Id_Json, Some(Id_String))),
      Typed(Some(Id_auth), TypePath(Id_Widget, None)),
      Typed(Some(Id_auth), OtherType),
      Typed(Some(Id_token), TypePath(Id_JWT, None)),
      Typed(None, TypePath(Id_JWT, None)),
      Typed(None, TypePath(Id_Json, Some(Id_Gadget))),
      Receiver }

DefaultNaming == NamingConfig(None, None, None, None)

\* the route of an add call for the handler h, before the join
RouteOf(path, method, h) ==
    RouteInfo(generate_route_name(path, method, DefaultNaming), path, method, h,
              DefaultHandlerInfo)

Str_POST == <<"P","O","S","T">>
Path_a == <<"/","a">>
Path_id == <<"/","{","i","d","}">>

\* the handlers looked at, each with the route that dispatches to it: every list of
\* parameters with two bodies and every route, every body with every return type
InferCases ==
    { [func |-> ItemFn("h1", ins, Some(ImplTrait), bd), route |-> RouteOf(p, m, "h1")] :
        ins \in StrUpTo(Inputs, MaxInputs),
        bd \in { <<>>, <<SExpr(JsonOf(ConvFrom(Id_Widget)))>> },
        p \in { Path_a, Path_id },
        m \in { Str_GET, Str_POST } }
    \cup
    { [func |-> ItemFn("h1", <<>>, out, bd), route |-> RouteOf(Path_a, Str_GET, "h1")] :
        out \in Outputs, bd \in Bodies }

InitInfer ==
    /\ config = DefaultNaming
    /\ pc = "inputs"
    /\ \E c \in InferCases :
         /\ func = c.func
         /\ routes = <<c.route>>
    /\ body_param = None
    /\ requires_auth = FALSE
    /\ visitor = DefaultReturnType
    /\ stmt_i = 0
    /\ handler_info = <<>>
    /\ InitTs
    /\ InitIdle
    /\ entries_seen = 1
    /\ last_entry = "rs"
    /\ file_routes = <<>>
    /\ prefix = <<>>
    /\ stack = <<>>
    /\ text = <<>>
    /\ decl = <<>>
    /\ scanned = <<>>
    /\ stmts_seen = 0
    /\ calls_seen = 0
    /\ diag = <<>>
    /\ result = NoResult
    /\ gen_i = 1
    /\ variants = <<>>
    /\ match_arms = <<>>
    /\ method_arms = <<>>
    /\ unique_variants = <<>>
    /\ call = NoCall

NextInfer ==
    \/ ScanInputs
    \/ VisitStmt
    \/ VisitTail
    \/ InsertHandlerInfo
    \/ CollectImports
    \/ ClientRoute
    \/ ClientFinish
    \/ HookRoute
    \/ HooksFinish

SpecInfer == InitInfer /\ [][NextInfer]_vars

-----------------------------------------------------------------------------
(* The three generators on one route list *)

\* most routes of a route list handed to the generators
MaxRoutes == 2

Path_id_name == <<"/","{","i","d","}","/","{","n","a","m","e","}">>
Path_a_user_id == <<"/","a","/","{","u","s","e","r","_","i","d","}">>
Path_id_a_id == <<"/","{","i","d","}","/","a","/","{","i","d","}">>

\* async fn h() -> Result<Response> { format::json(Vec::<i32>::new()) }
FnVecI32 ==
    ItemFn("h", <<>>, Some(TypePath(Id_Result, Some(Id_Response))),
           << SExpr(JsonOf(VecNew(Id_i32))) >>)
\* async fn h() -> Result<Response> { format::json(Vec::<Gadget>::new()) }
FnVecGadget ==
    ItemFn("h", <<>>, Some(TypePath(Id_Result, Some(Id_Response))),
           << SExpr(JsonOf(VecNew(Id_Gadget))) >>)
\* async fn h() -> impl IntoResponse { item }
FnOpaque == ItemFn("h", <<>>, Some(ImplTrait), << SExpr(EPath) >>)

\* a RouteInfo built by a caller of the generators: Option<Gadget> as body type,
\* Result<Widget, Error> as return type
InfoWrapped ==
    HandlerInfo(Some(Str_OptionLt \o Id_Gadget \o <<">">>), FALSE,
                [found_type |-> Some(Str_ResultLt \o Id_Widget \o <<",", " ">> \o Id_Error
                                     \o <<">">>),
                 is_importable |-> TRUE, error_types |-> <<>>])

Str_PUT == <<"P","U","T">>
Str_PATCH == <<"P","A","T","C","H">>
Str_DELETE == <<"D","E","L","E","T","E">>
Str_HEAD == <<"H","E","A","D">>
Path_a_slash == <<"/","a","/">>
Id_WidgetQuery == <<"W","i","d","g","e","t","Q","u","e","r","y">>

\* a RouteInfo built by a caller of the generators: query parameters of type WidgetQuery
WithQuery(info) == [info EXCEPT !.query_params = Some(Id_WidgetQuery)]

\* the routes handed to the generators: every combination of path parameters, query
\* parameters and body for GET and for another method; the methods put, patch,
\* delete and head; and /a/ next to /a, which are named alike
EmitCases ==
    { <<Path_id_name, Str_GET, handler_info_of(FnH1)>>,
      <<Path_id_name, Str_POST, handler_info_of(FnH1)>>,
      <<Path_id_name, Str_GET, DefaultHandlerInfo>>,
      <<Path_a_user_id, Str_GET, handler_info_of(FnVecI32)>>,
      <<Path_a_user_id, Str_POST, handler_info_of(FnOpaque)>>,
      <<Path_id_a_id, Str_GET, handler_info_of(FnVecGadget)>>,
      <<Path_a, Str_GET, handler_info_of(FnOpaque)>>,
      <<Path_a, Str_POST, handler_info_of(FnH1)>>,
      <<Path_a, Str_GET, InfoWrapped>>,
      <<Path_a, Str_PUT, DefaultHandlerInfo>>,
      <<Path_a, Str_GET, WithQuery(DefaultHandlerInfo)>>,
      <<Path_id_name, Str_GET, WithQuery(DefaultHandlerInfo)>>,
      <<Path_a, Str_GET, WithQuery(handler_info_of(FnH1))>>,
      <<Path_id_name, Str_GET, WithQuery(handler_info_of(FnH1))>>,
      <<Path_a, Str_PATCH, WithQuery(DefaultHandlerInfo)>>,
      <<Path_id_name, Str_DELETE, WithQuery(DefaultHandlerInfo)>>,
      <<Path_a, Str_DELETE, WithQuery(handler_info_of(FnH1))>>,
      <<Path_id_name, Str_PUT, WithQuery(handler_info_of(FnH1))>>,
      <<Path_a, Str_HEAD, DefaultHandlerInfo>>,
      <<Path_a_slash, Str_GET, DefaultHandlerInfo>> }

EmitRoutes(naming) ==
    { RouteInfo(generate_route_name(c[1], c[2], naming), c[1], c[2], "h", c[3]) :
        c \in EmitCases }

\* default naming, and camelCase field names
EmitConfigs ==
    { DefaultNaming, [DefaultNaming EXCEPT !.field_case = Some("camel")] }

InitEmit ==
    /\ config \in EmitConfigs
    /\ pc = "generate"
    /\ routes \in StrUpTo(EmitRoutes(config), MaxRoutes)
    /\ InitHandlers
    /\ InitTs
    /\ InitIdle
    /\ entries_seen = 0
    /\ last_entry = ""
    /\ file_routes = <<>>
    /\ prefix = <<>>
    /\ stack = <<>>
    /\ text = <<>>
    /\ decl = <<>>
    /\ scanned = <<>>
    /\ stmts_seen = 0
    /\ calls_seen = 0
    /\ diag = <<>>
    /\ result = NoResult
    /\ gen_i = 1
    /\ variants = <<>>
    /\ match_arms = <<>>
    /\ method_arms = <<>>
    /\ unique_variants = <<>>
    /\ call = NoCall

NextEmit ==
    \/ GenRoute
    \/ GenFinish
    \/ StartTs
    \/ CollectImports
    \/ ClientRoute
    \/ ClientFinish
    \/ HookRoute
    \/ HooksFinish

SpecEmit == InitEmit /\ [][NextEmit]_vars

-----------------------------------------------------------------------------
(* Properties: helpers *)

\* the k-th smallest element of a finite set of numbers
KthOf(S, k) == CHOOSE x \in S : Cardinality({ y \in S : y < x }) = k - 1

\* the elements of rs at the indices of S, in order
Pick(rs, S) == [k \in 1..Cardinality(S) |-> rs[KthOf(S, k)]]

IsDupRouteDiag(d) == d.kind = "Duplicate route skipped"
IsDupVariantDiag(d) == d.kind = "Duplicate variant name"

\* the indices of the declarations that are the first of their (method, path)
FirstOfKey(rs) ==
    { i \in 1..Len(rs) : \A j \in 1..(i - 1) : RouteKey(rs[j]) # RouteKey(rs[i]) }

-----------------------------------------------------------------------------
\* C1: when scan_controllers_folder has returned Ok, no two routes of the result
\* share (method, path); the result is exactly the first declaration of every pair,
\* in the order of the traversal; and one "Duplicate route skipped" diagnostic was
\* written for every later declaration, in order.
C1_DedupKeepsFirst ==
    result.kind = "ok" =>
        LET first == FirstOfKey(scanned)
            later == (1..Len(scanned)) \ first
            dups == SelectSeq(diag, IsDupRouteDiag)
        IN  /\ \A i, j \in 1..Len(result.routes) :
                 i # j => RouteKey(result.routes[i]) # RouteKey(result.routes[j])
            /\ result.routes = Pick(scanned, first)
            /\ routes = result.routes
            /\ Len(dups) = Cardinality(later)
            /\ \A k \in 1..Len(dups) :
                 <<dups[k].method, dups[k].path>> = RouteKey(scanned[KthOf(later, k)])

\* a scan of three declarations whose second repeats the first and whose third is new
C1_Witness ==
    /\ result.kind = "ok"
    /\ Len(scanned) = 3
    /\ RouteKey(scanned[1]) = RouteKey(scanned[2])
    /\ scanned[1].handler # scanned[2].handler
    /\ RouteKey(scanned[3]) # RouteKey(scanned[1])
    /\ Len(result.routes) = 2

-----------------------------------------------------------------------------
\* C2: in the link-enum generator no two emitted variants have the same name: of the
\* routes handled so far, exactly the first of every variant name has a variant, a
\* path arm and a method arm, which are those of that first route, and every later
\* route of the name got a diagnostic and nothing else.
VariantNameOf(r) == create_variant_name(r.name, config)

FirstOfVariantName(rs, n) ==
    { i \in 1..n : \A j \in 1..(i - 1) : VariantNameOf(rs[j]) # VariantNameOf(rs[i]) }

C2_VariantNamesUnique ==
    pc \in {"generate", "done"} =>
        LET n == gen_i - 1
            first == FirstOfVariantName(routes, n)
            emitted == Pick(routes, first)
        IN  /\ \A i, j \in 1..Len(variants) :
                 i # j => variants[i].name # variants[j].name
            /\ Len(variants) = Len(emitted)
            /\ Len(match_arms) = Len(emitted)
            /\ Len(method_arms) = Len(emitted)
            /\ \A k \in 1..Len(emitted) :
                 /\ variants[k].name = VariantNameOf(emitted[k])
                 /\ match_arms[k].variant = VariantNameOf(emitted[k])
                 /\ match_arms[k].code.kind = "literal" =>
                      match_arms[k].code.path = emitted[k].path
                 /\ method_arms[k] = [variant |-> VariantNameOf(emitted[k]),
                                      method |-> emitted[k].method]
                 /\ unique_variants[VariantNameOf(emitted[k])] = emitted[k]
            /\ Len(SelectSeq(diag, IsDupVariantDiag)) = n - Cardinality(first)

\* a later route with another method was skipped for the name of an earlier one
C2_Witness ==
    /\ pc = "done"
    /\ Len(variants) >= 1
    /\ \E k \in 1..Len(diag) :
         /\ IsDupVariantDiag(diag[k])
         /\ diag[k].method # diag[k].method2
         /\ diag[k].path # diag[k].path2

-----------------------------------------------------------------------------
\* C3: every route of a routes function has the path built from its add call's
\* literal and the prefix of the most recent prefix("..") call that precedes the add
\* in the source since the last `new` call (no prefix if there is none); the routes
\* are those of the add calls handled so far, in source order.  Holding in every
\* state, it also says that no later call changes the path of an earlier add.
PrefixAsNormalized(lit) ==
    IF lit # <<>> /\ lit[1] = "/" THEN lit ELSE <<"/">> \o lit

ActivePrefixAt(t, pos) ==
    LET setters == { j \in 1..(pos - 1) : t[j].kind \in {"new", "prefix"} }
    IN  IF setters = {} THEN <<>>
        ELSE LET j == KthOf(setters, Cardinality(setters))
             IN  IF t[j].kind = "new" THEN <<>> ELSE PrefixAsNormalized(t[j].lit)

\* the source positions the interpreter is done with
Handled == 1..(Len(text) - Len(stack))

C3_ReceiverFirstPrefix ==
    pc \in {"stmt", "descend", "unwind", "failed"} =>
        /\ Len(decl) = Len(file_routes)
        /\ \A k \in 1..Len(file_routes) :
             /\ decl[k].pos \in Handled
             /\ text[decl[k].pos].kind = "add"
             /\ file_routes[k].path =
                  build_full_path(ActivePrefixAt(text, decl[k].pos), text[decl[k].pos].lit)
             /\ \A k2 \in 1..Len(file_routes) : k < k2 => decl[k].pos < decl[k2].pos
        /\ \A j \in Handled :
             text[j].kind = "add" => \E k \in 1..Len(decl) : decl[k].pos = j

\* prefix(..) in one chain, then a chain new().add(..).prefix(..): the add has no prefix
C3_Witness ==
    /\ pc = "stmt"
    /\ \E k \in 1..Len(file_routes) :
         \E j1, j2, j3 \in 1..Len(text) :
             /\ j1 < j2 /\ j2 < decl[k].pos /\ decl[k].pos < j3
             /\ text[j1].kind = "prefix"
             /\ text[j2].kind = "new"
             /\ text[j3].kind = "prefix"
             /\ file_routes[k].path = text[decl[k].pos].lit

-----------------------------------------------------------------------------
\* C4 (as claimed): an add call whose path, method or handler cannot be extracted
\* never fails the run.
AddErrors == { "Failed to extract path from add() call",
               "Failed to extract HTTP method and handler from add() call" }

-----------------------------------------------------------------------------
-----------------------------------------------------------------------------
\* C6: for a non-empty prefix, build_full_path returns the prefix without its
\* trailing slashes, one '/', and the path without its leading slashes: exactly one
\* '/' stands between the two, whatever the number of slashes on either side.
AllSlashes(s) == \A i \in 1..Len(s) : s[i] = "/"

-----------------------------------------------------------------------------
\* C7: every route the chain interpreter produces has a path that starts with '/'.
C7_PathsStartWithSlash ==
    \A k \in 1..Len(file_routes) :
        file_routes[k].path # <<>> /\ file_routes[k].path[1] = "/"

-----------------------------------------------------------------------------
\* C8: the path of a route is the active prefix joined with the declared path,
\* whatever path_prefix_to_remove is; only the name follows the strip-prefix: with
\* the chain prefix /p and the declared path /{i} the path is /p/{i}, and the name
\* is based on i when /p is stripped and on p_i when nothing is.
C8_StripOnlyForNaming ==
    \A k \in 1..Len(file_routes) :
        LET r == file_routes[k]
            lit == text[decl[k].pos].lit
            with_method == UnwrapOr(config.include_method_in_names, TRUE)
            named(base) == IF with_method THEN <<"g","e","t","_">> \o base ELSE base
        IN  /\ lit = decl[k].lit
            /\ r.path = build_full_path(decl[k].prefix, lit)
            /\ (decl[k].prefix = <<"/","p">> /\ lit = <<"/","{","i","}">>) =>
                 /\ r.path = <<"/","p","/","{","i","}">>
                 /\ r.name = IF config.path_prefix_to_remove = Some(<<"/","p">>)
                             THEN named(<<"i">>)
                             ELSE named(<<"p","_","i">>)

C8_Witness ==
    /\ config.path_prefix_to_remove = Some(<<"/","p">>)
    /\ config.include_method_in_names = None
    /\ \E k \in 1..Len(file_routes) :
         /\ file_routes[k].path = <<"/","p","/","{","i","}">>
         /\ file_routes[k].name = <<"g","e","t","_","i">>

-----------------------------------------------------------------------------
\* C9: generate_route_name returns a non-empty string whose first character is a
\* letter or '_' and whose other characters are alphanumeric or '_'.
C9_NameIsIdentifier ==
    (pc = "returned" /\ call.fn = "generate_route_name") =>
        /\ call.out # <<>>
        /\ IsAlphabetic(call.out[1]) \/ call.out[1] = "_"
        /\ \A i \in 2..Len(call.out) : IsAlphanumeric(call.out[i]) \/ call.out[i] = "_"

\* a path that starts with a digit, named without the method and with no separators
C9_Witness ==
    /\ pc = "returned"
    /\ call.fn = "generate_route_name"
    /\ call.a = <<"1","/","-">>
    /\ call.naming.include_method_in_names = Some(FALSE)
    /\ call.naming.word_separators = Some(<<>>)
    /\ call.out = <<"_","1","_","_">>

-----------------------------------------------------------------------------
\* the cleaned naming copy of the path of the call
CleanedOfCall ==
    clean_route_path_for_name(name_path_of(call.a, call.naming), call.naming)

NameWithBase(base) ==
    IF UnwrapOr(call.naming.include_method_in_names, TRUE)
    THEN ToLowercase(call.b) \o <<"_">> \o base
    ELSE base

\* C10 (as claimed): the name base is root when the cleaned naming path is empty,
\* and the cleaned path for every other path.
C10_RootOnlyWhenEmpty ==
    (pc = "returned" /\ call.fn = "generate_route_name") =>
        call.out = sanitize_identifier(
                      NameWithBase(IF CleanedOfCall = <<>>
                                   THEN <<"r","o","o","t">> ELSE CleanedOfCall))

\* C10 (amended): the name base is root when the cleaned naming path is empty or is
\* the single character '/' (which custom word_separators without '/' can leave);
\* for every other path the base is the cleaned path, which has no two consecutive
\* underscores and no leading or trailing underscore.
C10_RootFallback ==
    (pc = "returned" /\ call.fn = "generate_route_name") =>
        LET cleaned == CleanedOfCall
            with_method == UnwrapOr(call.naming.include_method_in_names, TRUE)
        IN  /\ cleaned \in { <<>>, <<"/">> } =>
                 call.out = IF ~with_method THEN <<"r","o","o","t">>
                            ELSE IF call.b = <<"G","E","T">>
                                 THEN <<"g","e","t","_","r","o","o","t">>
                                 ELSE <<"p","o","s","t","_","r","o","o","t">>
            /\ cleaned \notin { <<>>, <<"/">> } =>
                 call.out = sanitize_identifier(NameWithBase(cleaned))
            /\ ~Contains(cleaned, <<"_","_">>)
            /\ cleaned # <<>> => cleaned[1] # "_" /\ cleaned[Len(cleaned)] # "_"

\* the strip-prefix removes the whole path: the name is the method and root
C10_Witness ==
    /\ pc = "returned"
    /\ call.fn = "generate_route_name"
    /\ call.a = <<"/","a","/">>
    /\ call.naming.path_prefix_to_remove = Some(<<"/","a">>)
    /\ call.naming.include_method_in_names = None
    /\ call.b = <<"P","O","S","T">>
    /\ call.out = <<"p","o","s","t","_","r","o","o","t">>

-----------------------------------------------------------------------------
\* C11: when the generators are done, the template /{id}/{name} has exactly the path
\* parameters id and name, in this order; every route with path parameters has a
\* parameter interface in the client, in route order, and the first route of every
\* variant name has a variant in the link enum; interface and variant have one
\* field per path parameter, in the order of the template, and the i-th field of
\* each is made of the words of the i-th parameter.
WordsOf(s) == [k \in 1..Len(SplitWords(s)) |-> ToLowercase(SplitWords(s)[k])]

HasPathParams(r) == extract_parameters_from_path(r.path) # <<>>

\* the position in `variants` of the variant of the i-th route
VariantIndexOf(rs, i) == Cardinality(FirstOfVariantName(rs, i))

\* the position in `interfaces` of the interface of the i-th route
InterfaceIndexOf(rs, i) == Cardinality({ j \in 1..i : HasPathParams(rs[j]) })

C11_ParamsRoundTrip ==
    pc = "ts_done" =>
        /\ Len(interfaces) = InterfaceIndexOf(routes, Len(routes))
        /\ \A i \in 1..Len(routes) :
             LET params == extract_parameters_from_path(routes[i].path)
                 itf == interfaces[InterfaceIndexOf(routes, i)]
                 var == variants[VariantIndexOf(routes, i)]
             IN  /\ routes[i].path = Path_id_name =>
                       params = << <<"i","d">>, <<"n","a","m","e">> >>
                 /\ params # <<>> =>
                       /\ Len(itf.fields) = Len(params)
                       /\ \A p \in 1..Len(params) : WordsOf(itf.fields[p]) = WordsOf(params[p])
                 /\ i \in FirstOfVariantName(routes, i) =>
                       /\ Len(var.fields) = Len(params)
                       /\ \A p \in 1..Len(params) : WordsOf(var.fields[p]) = WordsOf(params[p])
                 /\ (params # <<>> /\ i \in FirstOfVariantName(routes, i)) =>
                       \A p \in 1..Len(params) :
                          WordsOf(var.fields[p]) = WordsOf(itf.fields[p])
                 /\ params # <<>> =>
                       \A p, p2 \in 1..Len(params) :
                          p # p2 => itf.fields[p] # itf.fields[p2]
                 /\ i \in FirstOfVariantName(routes, i) =>
                       \A p, p2 \in 1..Len(params) :
                          p # p2 => var.fields[p] # var.fields[p2]

\* the generators are done with a route of the template /{id}/{name}: its variant and
\* its interface have the fields id and name
C11_Witness ==
    /\ pc = "ts_done"
    /\ Len(routes) = 2
    /\ routes[2].path = Path_id_name
    /\ routes[1].path = Path_a_user_id
    /\ Len(variants) = 2
    /\ variants[2].fields = << <<"i","d">>, <<"n","a","m","e">> >>
    /\ interfaces[2].fields = << <<"i","d">>, <<"n","a","m","e">> >>
    /\ interfaces[1].fields = << <<"u","s","e","r","I","d">> >>

-----------------------------------------------------------------------------
\* C12: when the scan of a folder whose one module declares prefix("/v1"), then
\* add("/widgets/{id}", get(get_widget)) and add("/widgets/{id}", get(get_widget_dup))
\* has returned Ok under default naming, it has returned exactly one route: named
\* get_v1_widgets_id, with method GET, path /v1/widgets/{id} and handler get_widget,
\* whose one path parameter is id; and exactly one diagnostic was written, which is
\* about the dropped duplicate GET /v1/widgets/{id}.
IsDefaultNaming(naming) ==
    /\ naming.include_method_in_names \in { None, Some(TRUE) }
    /\ naming.path_prefix_to_remove = None
    /\ naming.word_separators = None

ScenarioWasRead == Len(scanned) > 0

C12_Scenario ==
    (result.kind = "ok" /\ ScenarioWasRead /\ IsDefaultNaming(config)) =>
        /\ Len(result.routes) = 1
        /\ routes = result.routes
        /\ routes[1].name = Name_get_v1_widgets_id
        /\ routes[1].method = Str_GET
        /\ routes[1].path = Path_v1_widgets_id
        /\ routes[1].handler = "get_widget"
        /\ extract_parameters_from_path(routes[1].path) = << <<"i","d">> >>
        /\ Len(diag) = 1
        /\ IsDupRouteDiag(diag[1])
        /\ diag[1].method = Str_GET
        /\ diag[1].path = Path_v1_widgets_id

\* the scan has read both add calls and has dropped the second
C12_Witness ==
    /\ result.kind = "ok"
    /\ config = DefaultNaming
    /\ Len(scanned) = 2
    /\ scanned[2].handler = "get_widget_dup"
    /\ Len(routes) = 1
    /\ routes[1].name = Name_get_v1_widgets_id
    /\ Len(diag) = 1

-----------------------------------------------------------------------------
\* the declarations that were dropped, and for each the one that survived it
DroppedOf(rs) == (1..Len(rs)) \ FirstOfKey(rs)
SurvivorOf(rs, i) ==
    CHOOSE j \in FirstOfKey(rs) : RouteKey(rs[j]) = RouteKey(rs[i])

\* C13 (as claimed): the diagnostic of a dropped route names the handler of the
\* dropped route and the handler of the route that survived; so two dropped routes
\* with the same diagnostic have the same handler, and so have their survivors.
C13_DiagNamesHandlers ==
    result.kind = "ok" =>
        LET later == DroppedOf(scanned)
            dups == SelectSeq(diag, IsDupRouteDiag)
        IN  \A k, l \in 1..Len(dups) :
               dups[k] = dups[l] =>
                  /\ scanned[KthOf(later, k)].handler = scanned[KthOf(later, l)].handler
                  /\ scanned[SurvivorOf(scanned, KthOf(later, k))].handler
                       = scanned[SurvivorOf(scanned, KthOf(later, l))].handler

\* C13 (amended): the diagnostic of a dropped route is "Duplicate route skipped" with
\* the method and the path of the dropped route, which are those of the route that
\* survived, and with nothing else: it names no handler.
C13_DiagNamesMethodAndPath ==
    result.kind = "ok" =>
        LET later == DroppedOf(scanned)
            dups == SelectSeq(diag, IsDupRouteDiag)
        IN  /\ Len(dups) = Cardinality(later)
            /\ \A k \in 1..Len(dups) :
                 LET dropped == scanned[KthOf(later, k)]
                     survivor == scanned[SurvivorOf(scanned, KthOf(later, k))]
                 IN  /\ dups[k] = [kind |-> "Duplicate route skipped", name |-> <<>>,
                                   method |-> dropped.method, path |-> dropped.path,
                                   method2 |-> <<>>, path2 |-> <<>>]
                     /\ dups[k].method = survivor.method
                     /\ dups[k].path = survivor.path

\* a route was dropped whose handler is not the handler of the route that survived
C13_Witness ==
    /\ result.kind = "ok"
    /\ \E i \in DroppedOf(scanned) :
         scanned[i].handler # scanned[SurvivorOf(scanned, i)].handler
    /\ Len(SelectSeq(diag, IsDupRouteDiag)) >= 1

-----------------------------------------------------------------------------
\* the first arguments of the json calls of an expression, in the order of the walk:
\* arguments of a call, the returned expression, receiver then arguments, the
\* statements of a block then its tail, condition then branch then else, scrutinee
\* then arms
RECURSIVE JsonArgsOfExpr(_)
RECURSIVE JsonArgsOfExprs(_)
RECURSIVE JsonArgsOfStmts(_)
JsonArgsOfTail(ss) ==
    IF ss # <<>> /\ ss[Len(ss)].kind = "expr"
    THEN JsonArgsOfExpr(ss[Len(ss)].expr[1]) ELSE <<>>
JsonArgsOfExpr(e) ==
    CASE e.kind = "call" ->
           IF e.name # <<>> /\ e.name[Len(e.name)] = Id_json /\ Len(e.args) >= 1
           THEN <<e.args[1]>> ELSE JsonArgsOfExprs(e.args)
      [] e.kind = "return" -> JsonArgsOfExprs(e.args)
      [] e.kind = "method_call" -> JsonArgsOfExprs(e.recv) \o JsonArgsOfExprs(e.args)
      [] e.kind = "block" -> JsonArgsOfStmts(e.stmts) \o JsonArgsOfTail(e.stmts)
      [] e.kind = "if" ->
           JsonArgsOfExprs(e.recv) \o JsonArgsOfStmts(e.stmts)
             \o JsonArgsOfTail(e.stmts) \o JsonArgsOfExprs(e.args)
      [] e.kind = "match" -> JsonArgsOfExprs(e.recv) \o JsonArgsOfExprs(e.args)
      [] OTHER -> <<>>
JsonArgsOfExprs(es) ==
    IF es = <<>> THEN <<>> ELSE JsonArgsOfExpr(es[1]) \o JsonArgsOfExprs(Tail(es))
JsonArgsOfStmts(ss) ==
    IF ss = <<>> THEN <<>>
    ELSE (IF ss[1].kind \in { "expr", "local" } THEN JsonArgsOfExprs(ss[1].expr) ELSE <<>>)
         \o JsonArgsOfStmts(Tail(ss))

\* what a response construction gives on its own, and whether it is recognised
ConstructionOf(arg) == visit_conversion_expr(DefaultReturnType, arg)
IsRecognised(arg) == IsSome(ConstructionOf(arg).found_type)
\* the visitor after a walk over these constructions: the first recognised one
FirstRecognised(constructions) ==
    LET recognised == SelectSeq(constructions, IsRecognised)
    IN  IF recognised = <<>> THEN DefaultReturnType ELSE ConstructionOf(recognised[1])

\* C14: return-type inference is first-found-wins.  After each statement of the body
\* the visitor holds the first recognised response construction of the statements
\* walked so far, in the order of the walk (statements in sequence, then the tail
\* expression, descending into blocks, branches, arms, returns, arguments and
\* receivers); and once found_type is set no later step changes found_type or
\* is_importable.
C14_FirstFoundWins ==
    /\ [](pc = "body" =>
            visitor = FirstRecognised(JsonArgsOfStmts(SubSeq(func.stmts, 1, stmt_i))))
    /\ [](pc = "insert" =>
            visitor = FirstRecognised(JsonArgsOfStmts(func.stmts)
                                        \o JsonArgsOfTail(func.stmts)))
    /\ [][IsSome(visitor.found_type) => visitor' = visitor]_vars

\* the body has been walked and it held two recognised constructions of different
\* types, the first in a nested expression
C14_Witness ==
    /\ pc = "insert"
    /\ LET recognised == SelectSeq(JsonArgsOfStmts(func.stmts), IsRecognised)
       IN  /\ Len(recognised) >= 2
           /\ ConstructionOf(recognised[1]) # ConstructionOf(recognised[Len(recognised)])
           /\ visitor = ConstructionOf(recognised[1])
    /\ func.stmts[1].kind = "expr"
    /\ func.stmts[1].expr[1].kind \in { "if", "match", "block", "method_call" }

-----------------------------------------------------------------------------
\* the pc values after the information of the handler has been inserted
AfterInsert == { "ts_collect", "ts_client", "ts_hooks", "ts_done" }

\* the recognised response construction of a body, if there is one
BodyType(f) ==
    FirstRecognised(JsonArgsOfStmts(f.stmts) \o JsonArgsOfTail(f.stmts)).found_type

\* C15: body inspection runs before the signature fallback, and the fallback runs
\* whenever the body gives nothing: the found type of a handler is the type of the
\* recognised response construction of its body if there is one, whatever the declared
\* return type, and otherwise it comes from the declared return type (the success
\* type of a Result or Json wrapper, or the bare name of the declared type).
C15_BodyThenSignature ==
    (pc \in AfterInsert /\ func.name \in DOMAIN handler_info) =>
        handler_info[func.name].return_type.found_type =
            IF IsSome(BodyType(func)) THEN BodyType(func)
            ELSE IF IsSome(func.output) THEN extract_return_type(Unwrap(func.output))
            ELSE None

-----------------------------------------------------------------------------
\* the recognised response constructions of a body, in the order of the walk
RecognisedOf(f) ==
    SelectSeq(JsonArgsOfStmts(f.stmts) \o JsonArgsOfTail(f.stmts), IsRecognised)
\* Vec::<T>::new()
IsVecNew(e) ==
    /\ e.kind = "call"
    /\ Len(e.name) >= 2
    /\ e.name[1] = Id_Vec
    /\ IsSome(e.targ)

\* C16: a handler whose response expression is Vec::<T>::new() yields
\* found_type = Array<T>, with is_importable true when T is a user-defined type and
\* false when T is one of the builtin scalar names.
C16_VecNewImportable ==
    (pc = "insert" /\ RecognisedOf(func) # <<>> /\ IsVecNew(RecognisedOf(func)[1])) =>
        LET T == Unwrap(RecognisedOf(func)[1].targ)
        IN  /\ visitor.found_type = Some(<<"A","r","r","a","y","<">> \o T \o <<">">>)
            /\ visitor.is_importable = (T \notin BuiltinRustNames)

-----------------------------------------------------------------------------
\* C17: a handler with no recognised response construction in its body and an opaque
\* (impl Trait) declared return type yields found_type = None; for every route whose
\* found_type is None the client method and the hook have the response type `any`;
\* and the run ends with both outputs emitted for every route, without an error.
C17_UnresolvedIsAny ==
    /\ (pc \in AfterInsert /\ func.output = Some(ImplTrait) /\ RecognisedOf(func) = <<>>) =>
          handler_info[func.name].return_type.found_type = None
    /\ \A i \in 1..Len(routes) :
          routes[i].handler_info.return_type.found_type = None =>
             /\ i <= Len(client_methods) => client_methods[i].returns = <<"a","n","y">>
             /\ i <= Len(hooks) => hooks[i].returns = <<"a","n","y">>
    /\ result.kind # "err"
    /\ pc = "ts_done" =>
          /\ Len(client_methods) = Len(routes)
          /\ Len(hooks) = Len(routes)

\* both generators have emitted the route of a handler that returns impl Trait and
\* whose body, not empty, holds no recognised construction
C17_Witness ==
    /\ pc = "ts_done"
    /\ func.output = Some(ImplTrait)
    /\ func.stmts # <<>>
    /\ RecognisedOf(func) = <<>>
    /\ routes[1].handler = func.name
    /\ routes[1].handler_info.return_type.found_type = None
    /\ client_methods[1].returns = <<"a","n","y">>
    /\ hooks[1].returns = <<"a","n","y">>

-----------------------------------------------------------------------------
\* what a route is without its handler information
CoreOf(r) == <<r.name, r.path, r.method, r.handler>>
\* the information of the function h1 of the controller: auth: JWT, a Json<Gadget>
\* parameter, format::json(Widget::from(..)) in the body
InfoOfH1 ==
    [body_param |-> <<Id_Gadget>>, requires_auth |-> TRUE,
     return_type |-> [found_type |-> <<Id_Widget>>, is_importable |-> TRUE,
                      error_types |-> <<>>],
     query_params |-> <<>>]
InfoDefault ==
    [body_param |-> <<>>, requires_auth |-> FALSE,
     return_type |-> [found_type |-> <<>>, is_importable |-> FALSE,
                      error_types |-> <<>>],
     query_params |-> <<>>]

\* C18: a route whose handler matches no function of its module keeps the default
\* metadata and the run does not fail at the join; a route whose handler matches
\* has exactly the HandlerInfo of that function; and the join changes no route's
\* name, path, method or handler.
C18_JoinHandlerInfo ==
    /\ [](\A i \in 1..Len(routes) :
             routes[i].handler_info =
                IF routes[i].handler = FnH1.name THEN InfoOfH1 ELSE InfoDefault)
    /\ [](\A i \in 1..Len(file_routes) : file_routes[i].handler_info = InfoDefault)
    /\ [][(pc = "stmt" /\ pc' = "entries") =>
            /\ Len(routes') = Len(routes) + Len(file_routes)
            /\ SubSeq(routes', 1, Len(routes)) = routes
            /\ \A k \in 1..Len(file_routes) :
                 CoreOf(routes'[Len(routes) + k]) = CoreOf(file_routes[k])
            /\ result' = result]_vars

\* a run has returned a route of the declared handler h1, with its information, and
\* a route of h2, which the module does not declare, with the default
C18_Witness ==
    /\ result.kind = "ok"
    /\ \E i, j \in 1..Len(result.routes) :
         /\ result.routes[i].handler = "h1"
         /\ result.routes[i].handler_info = InfoOfH1
         /\ result.routes[j].handler = "h2"
         /\ result.routes[j].handler_info = InfoDefault

-----------------------------------------------------------------------------
\* a parameter `auth: JWT`
IsAuthJwt(input) ==
    /\ input.typed
    /\ input.pat = << <<"a","u","t","h">> >>
    /\ input.ty = [kind |-> "path", name |-> <<"J","W","T">>, targ |-> <<>>]

\* C19: requires_auth of a handler is true if and only if one of its parameters is
\* named auth and has the declared type JWT (a parameter auth of another type, or a
\* JWT parameter of another name, leaves it false), and every client method of a
\* route passes requiresAuth equal to the requires_auth of the route.
C19_RequiresAuth ==
    /\ pc \in AfterInsert =>
         LET expected == \E i \in 1..Len(func.inputs) : IsAuthJwt(func.inputs[i])
         IN  /\ handler_info[func.name].requires_auth = expected
             /\ \A i \in 1..Len(routes) :
                  routes[i].handler = func.name =>
                     routes[i].handler_info.requires_auth = expected
    /\ \A i \in 1..Len(client_methods) :
         client_methods[i].requires_auth = routes[i].handler_info.requires_auth

\* the client method of a handler (token: JWT, auth: JWT) has been emitted with
\* requiresAuth true
C19_Witness ==
    /\ pc = "ts_done"
    /\ Len(func.inputs) = 2
    /\ func.inputs[1].pat = <<Id_token>>
    /\ ~IsAuthJwt(func.inputs[1])
    /\ IsAuthJwt(func.inputs[2])
    /\ routes[1].handler = func.name
    /\ Len(client_methods) = 1
    /\ client_methods[1].requires_auth = TRUE

-----------------------------------------------------------------------------
\* the names of the builtin types of Rust and of TypeScript
BuiltinScalarNames ==
    BuiltinRustNames
    \cup { <<"s","t","r","i","n","g">>, <<"n","u","m","b","e","r">>,
           <<"b","o","o","l","e","a","n">>, <<"a","n","y">>, <<"v","o","i","d">> }
\* Array, Option, Result, Vec, and any name with type arguments
IsContainerOrWrapped(t) ==
    \/ t \in { <<"A","r","r","a","y">>, <<"O","p","t","i","o","n">>,
               <<"R","e","s","u","l","t">>, <<"V","e","c">> }
    \/ \E i \in 1..Len(t) : t[i] \in { "<", ">", "," }

\* C20: the type-import set built by the collector contains no builtin scalar or
\* container type name and no wrapper form; a return type is collected only when
\* is_importable is true; a type such as Array<String> or Array<i32> inferred from a
\* handler contributes no import.
C20_ImportsOnlyUserTypes ==
    pc \in { "ts_client", "ts_hooks", "ts_done" } =>
        /\ \A t \in type_imports :
              /\ t \notin BuiltinScalarNames
              /\ ~IsContainerOrWrapped(t)
        /\ \A i \in 1..Len(routes) :
              LET rt == routes[i].handler_info.return_type
              IN  (IsSome(rt.found_type) /\ ~rt.is_importable
                     /\ routes[i].handler_info.body_param = None /\ Len(routes) = 1)
                  => type_imports = {}

-----------------------------------------------------------------------------
\* the segments of a path or prefix between its outer slashes
SegmentsOf(s) == SplitOn(TrimMatches(s, "/"), "/")
\* the prefix is made of whole leading segments of the path
IsLeadingSegments(pfx, path) ==
    /\ Len(SegmentsOf(pfx)) <= Len(SegmentsOf(path))
    /\ SubSeq(SegmentsOf(path), 1, Len(SegmentsOf(pfx))) = SegmentsOf(pfx)
\* the naming copy of a path when the prefix is stripped by whole segments only
NamePathBySegments(path, pfx) ==
    IF IsLeadingSegments(pfx, path)
    THEN JoinWords(SubSeq(SegmentsOf(path), Len(SegmentsOf(pfx)) + 1,
                          Len(SegmentsOf(path))), <<"/">>)
    ELSE path

\* C30: path_prefix_to_remove is stripped from the naming copy of a path only when
\* it matches whole leading path segments: with the strip-prefix a the path /a/1 is
\* named from 1, while a path such as /aa or /a1/a, whose first segment only begins
\* with the text of the prefix, is named from the full path.
C30_StripWholeSegments ==
    (pc = "returned" /\ call.fn = "generate_route_name"
       /\ IsSome(call.naming.path_prefix_to_remove)) =>
        LET name_path == NamePathBySegments(call.a, Unwrap(call.naming.path_prefix_to_remove))
            cleaned == clean_route_path_for_name(name_path, call.naming)
        IN  call.out = sanitize_identifier(NameWithBase(base_name_of(cleaned)))

-----------------------------------------------------------------------------
\* the value a field of a variant holds, for the evaluation of generated code
ValueOf(field) == <<"<">> \o field \o <<">">>

\* the string a sequence of push operations builds
RECURSIVE RunPushOperations(_)
RunPushOperations(ops) ==
    IF ops = <<>> THEN <<>>
    ELSE (IF ops[1].op = "push_str_field" THEN ValueOf(ops[1].arg) ELSE ops[1].arg)
         \o RunPushOperations(Tail(ops))

\* what to_path returns for a match arm
ToPathOf(arm) ==
    IF arm.code.kind = "literal" THEN arm.code.path ELSE RunPushOperations(arm.code.ops)

\* the template of a route with each {param} replaced by the value of its field
Substituted(path, naming) ==
    LET segs == SplitOn(path, "/")
    IN  JoinWords([i \in 1..Len(segs) |->
                      IF IsParamSegment(segs[i])
                      THEN ValueOf(create_field_name(ParamNameOf(segs[i]), naming))
                      ELSE segs[i]],
                  <<"/">>)

\* C26: for every route with path parameters, the push steps emitted for its variant
\* re-assemble the template exactly: with the field values substituted they give the
\* path of the route with each {param} replaced by its value, the leading '/'
\* included, as to_path of a variant without parameters gives the path verbatim.
C26_PathBuildReassembles ==
    \A k \in 1..Len(match_arms) :
        LET arm == match_arms[k]
            route == unique_variants[arm.variant]
        IN  ToPathOf(arm) = Substituted(route.path, config)

-----------------------------------------------------------------------------
\* the segments of a template that are parameters
ParamSegmentsOf(path) == SelectSeq(SplitOn(path, "/"), IsParamSegment)

\* C27: for every field_case and every parameter name, each {param} segment of the
\* template of a route is rendered in the path-building code as a reference to the
\* field the variant declares for that parameter, never as the literal text {param}.
C27_ParamsAreFieldReferences ==
    \A k \in 1..Len(match_arms) :
        LET arm == match_arms[k]
            route == unique_variants[arm.variant]
            params == ParamSegmentsOf(route.path)
            pieces == SelectSeq(arm.code.ops, LAMBDA o : o.op # "push")
        IN  arm.code.kind = "build" =>
               /\ \A i \in 1..Len(params) :
                    \E j \in 1..Len(pieces) :
                       /\ pieces[j].op = "push_str_field"
                       /\ pieces[j].arg = create_field_name(ParamNameOf(params[i]), config)
                       /\ pieces[j].arg \in Range(arm.fields)
               /\ \A j \in 1..Len(pieces) :
                    pieces[j].op = "push_str_lit" => ~IsParamSegment(pieces[j].arg)

-----------------------------------------------------------------------------
(* The client generator and the hooks generator on the same routes *)

\* the entries of client_imports that name a parameter interface
ParamsImportsOf(imports) == SelectSeq(imports, LAMBDA s : EndsWith(s, Ts_Params))

\* the entries of `args` named `params`
ParamsArgsOf(args) == SelectSeq(args, LAMBDA a : a.name = "params")

\* C21: for every route the hook calls the client method of the same name
\* (convert_to_case(route.name, "camel")), both name the parameter interface
\* pascal(method name) + "Params", and the hooks import that interface exactly when
\* the client declares it, which is when the route has a path parameter
C21_GeneratorsAgree ==
    pc = "ts_done" =>
        /\ Len(hooks) = Len(routes)
        /\ Len(client_methods) = Len(routes)
        /\ Len(ParamsImportsOf(client_imports)) = Len(interfaces)
        /\ \A i \in 1..Len(routes) :
             LET k == InterfaceIndexOf(routes, i)
                 method_name == convert_to_case(routes[i].name, "camel")
             IN  /\ client_methods[i].name = method_name
                 /\ hooks[i].client_method = client_methods[i].name
                 /\ HasPathParams(routes[i]) =>
                       /\ interfaces[k].name =
                             convert_to_case(method_name, "pascal") \o Ts_Params
                       /\ ParamsImportsOf(client_imports)[k] = interfaces[k].name
                       /\ ParamsArgsOf(client_methods[i].args) =
                             << [name |-> "params", type |-> interfaces[k].name] >>
                       /\ ParamsArgsOf(hooks[i].args) =
                             ParamsArgsOf(client_methods[i].args)
                 /\ ~HasPathParams(routes[i]) =>
                       /\ ParamsArgsOf(client_methods[i].args) = <<>>
                       /\ ParamsArgsOf(hooks[i].args) = <<>>
                       /\ \A j \in 1..Len(interfaces) :
                             interfaces[j].name # params_type_of(method_name)
                                \/ \E i2 \in 1..Len(routes) :
                                      /\ HasPathParams(routes[i2])
                                      /\ routes[i2].name = routes[i].name

\* both generators went over a route with path parameters and over one without:
\* one interface is declared and the hooks import it
C21_Witness ==
    /\ pc = "ts_done"
    /\ Len(routes) = 2
    /\ HasPathParams(routes[1])
    /\ ~HasPathParams(routes[2])
    /\ Len(interfaces) = 1
    /\ ParamsImportsOf(client_imports) = << interfaces[1].name >>
    /\ hooks[2].client_method = client_methods[2].name

\* the routes differ in their method and path, as the routes that the scan keeps do
DistinctKeys(rs) ==
    \A i, j \in 1..Len(rs) : i # j => RouteKey(rs[i]) # RouteKey(rs[j])

\* no two entries of s have the same name
DistinctNames(s) ==
    \A i, j \in 1..Len(s) : i # j => s[i].name # s[j].name

\* C22: the client and the hooks have no two methods, hooks or parameter interfaces
\* of the same name, and the routes they emit are the routes of the link enum
C22_ClientNamesDistinct ==
    (pc = "ts_done" /\ DistinctKeys(routes)) =>
        /\ DistinctNames(client_methods)
        /\ DistinctNames(hooks)
        /\ DistinctNames(interfaces)
        /\ Len(client_methods) = Len(variants)
        /\ Len(hooks) = Len(variants)

\* the names of a sequence of arguments
NamesOf(args) == [k \in 1..Len(args) |-> args[k].name]

\* C28: a hook hands its client method the arguments that the method declares
\* before config, of the same kinds and in the same order (params, query, body); a
\* GET route gets a query hook whose cache key is the method name followed by the
\* params and the query that are present, every other route a mutation hook
C28_HookCallsClientMethod ==
    \A i \in 1..Len(hooks) :
        /\ i <= Len(client_methods)
        /\ hooks[i].call_args = client_methods[i].args
        /\ NamesOf(hooks[i].call_args) \in
              { <<>>, <<"params">>, <<"query">>, <<"body">>, <<"params", "query">>,
                <<"params", "body">>, <<"query", "body">>, <<"params", "query", "body">> }
        /\ routes[i].method = Str_GET =>
              /\ hooks[i].kind = "useQuery"
              /\ hooks[i].query_key =
                    Some([name |-> client_methods[i].name,
                          parts |-> NamesOf(client_methods[i].args)])
        /\ routes[i].method # Str_GET =>
              /\ hooks[i].kind = "useMutation"
              /\ hooks[i].query_key = None

\* the hooks are emitted for a route that is not GET and has path parameters, a
\* query type and a body, and for a GET route with path parameters and a query type
C28_Witness ==
    /\ pc = "ts_done"
    /\ Len(routes) = 2
    /\ routes[1].method # Str_GET
    /\ NamesOf(hooks[1].call_args) = <<"params", "query", "body">>
    /\ routes[2].method = Str_GET
    /\ NamesOf(hooks[2].call_args) = <<"params", "query">>

\* the HTTP verb of a call apiClient.<method_call>
VerbOf(method_call) ==
    IF method_call = "get" THEN Str_GET
    ELSE IF method_call = "post" THEN Str_POST
    ELSE IF method_call = "put" THEN Str_PUT
    ELSE IF method_call = "patch" THEN Str_PATCH
    ELSE IF method_call = "delete" THEN Str_DELETE
    ELSE <<>>

\* C29: the call that a client method makes has the HTTP verb of its route: no
\* route is emitted as a call of another verb
C29_VerbIsRouteMethod ==
    \A i \in 1..Len(client_methods) :
        VerbOf(client_methods[i].method_call) = routes[i].method

-----------------------------------------------------------------------------
(* generate_links: the order of its steps, its configuration, and its runs *)

\* the positions of a run inside the generators
GeneratorPcs == {"generate", "done", "ts_collect", "ts_client", "ts_hooks", "ts_done"}

\* C23: a file is written only after scan_controllers_folder has returned Ok with
\* the deduplicated routes of all files, and holds the code of these routes; a run
\* whose scan has failed writes nothing; the generators leave the routes as they are
C23_WriteAfterModel ==
    /\ [][written' # written =>
              /\ result.kind = "ok"
              /\ pc = "ts_done"
              /\ routes = result.routes
              /\ DistinctKeys(routes)
              /\ \A i \in 1..Len(scanned) :
                    \E j \in 1..Len(routes) : RouteKey(routes[j]) = RouteKey(scanned[i])
              /\ Len(written') = Len(written) + 1
              /\ Len(written'[Len(written')].code.client_methods) = Len(routes)
              /\ Len(written'[Len(written')].code.hooks) = Len(routes)
              /\ entries_seen' = entries_seen
              /\ routes' = routes]_vars
    /\ [][(result.kind = "err" /\ result'.kind = "err") => written' = written]_vars
    /\ [][(pc \in GeneratorPcs) => (routes' = routes)]_vars

\* a run has read the controller file, dropped the duplicate route, written the
\* client of the route that is left and returned
C23_Witness ==
    /\ pc = "returned"
    /\ Len(scanned) = 2
    /\ Len(routes) = 1
    /\ Len(written) = 1
    /\ Len(written[1].code.client_methods) = 1
    /\ returned.kind = "ok"

\* the positions of a run inside the TypeScript generators
TsPcs == {"ts_collect", "ts_client", "ts_hooks", "ts_done"}

\* C24: without typescript_client_output no TypeScript is generated and no file is
\* written, and a run whose scan succeeded returns the link enum; whatever the
\* TypeScript configuration, the code returned is the link enum as it was generated
\* before the TypeScript generators, which leave it unchanged
C24_NoOutputPathNoTypeScript ==
    /\ [](ts_config.typescript_client_output = None =>
              /\ written = <<>>
              /\ pc \notin TsPcs
              /\ client_methods = <<>>
              /\ hooks = <<>>
              /\ interfaces = <<>>
              /\ (pc = "returned" /\ result.kind = "ok") => returned = OkCode(rust_code))
    /\ [](returned.kind = "ok" => (pc = "returned" /\ returned = OkCode(rust_code)))
    /\ [][(pc \in TsPcs) =>
              (variants' = variants /\ match_arms' = match_arms
                 /\ method_arms' = method_arms)]_vars

\* TypeScript is asked for and there is no output path: the run has returned the
\* link enum of the scenario and written nothing
C24_Witness ==
    /\ pc = "returned"
    /\ ts_config = TsConfig(Some(TRUE), None)
    /\ returned.kind = "ok"
    /\ Len(returned.code[1].variants) = 1
    /\ written = <<>>

====
